---- MODULE Spec2Model ----
(***************************************************************************)
(* Model of the backend of Minutemen Compass.                              *)
(*                                                                         *)
(* The bus schedule component, backend/bus_schedule_parser.py: the         *)
(* fetch-and-cache layer (parse_pdf and its helpers), the text pass        *)
(* (_parse_schedule_text), route lookup (find_route) and the time-aware    *)
(* query engine (get_next_bus_times). The conversation memory,             *)
(* backend/conversation_memory.py. The chat endpoint, backend/main.py.     *)
(*                                                                         *)
(* Text is modelled as sequences of one-character strings, so that         *)
(* upper(), replace() and the substring test "a in b" are computed.        *)
(* Wall-clock time of the cache is counted in hours, instants on the UTC   *)
(* axis; times of day of the query engine are counted in half-minutes      *)
(* (two ticks per minute: a timestamp with seconds = 0 is even).           *)
(***************************************************************************)
EXTENDS Integers, Sequences, FiniteSets, TLC

VARIABLES
    pc,             \* where the caller is: "idle", inside get_next_bus_times ("find"), or "returned"
    inp,            \* the input of the query engine when it is run on its own (SpecTimes)
    constructed,    \* BusScheduleParser.__init__ returned (did not raise)
    pdf_urls,       \* self.pdf_urls, as _load_pdf_urls left it
    hostUtcOffset,  \* UTC offset (hours) of the host's local zone, used by datetime.fromtimestamp
    now,            \* the wall clock, hours (an instant)
    cache,          \* the files of cache_dir: cache path -> file
    last,           \* the most recent call of the public API: its arguments, effects and result
    parses,         \* the runs of _parse_schedule_text: what each parser last worked with, and the calls made
    memory,         \* the ConversationMemory: the rows of table conversations and self._cache
    chat            \* the chat endpoint: the rows of table logs and the latest request served

vars == <<pc, inp, constructed, pdf_urls, hostUtcOffset, now, cache, last,
          parses, memory, chat>>

----------------------------------------------------------------------------
(* Bounds of the model *)

MaxNow == 24        \* the clock stops here
NumDocs == 2        \* distinct documents an upstream URL may serve

TickSteps == {12, 23}       \* hours that may pass between two calls
HostUtcOffsets == {-10, -5, 0}   \* hosts in Hawaii, in US/Eastern (standard time) and in UTC

----------------------------------------------------------------------------
(* Text *)

\* str.upper() on one character
UpperChar(c) ==
    CASE c = "b" -> "B"
      [] c = "a" -> "A"
      [] c = "c" -> "C"
      [] c = "d" -> "D"
      [] c = "e" -> "E"
      [] c = "f" -> "F"
      [] c = "g" -> "G"
      [] c = "h" -> "H"
      [] c = "i" -> "I"
      [] c = "j" -> "J"
      [] c = "k" -> "K"
      [] c = "l" -> "L"
      [] c = "m" -> "M"
      [] c = "n" -> "N"
      [] c = "o" -> "O"
      [] c = "p" -> "P"
      [] c = "q" -> "Q"
      [] c = "r" -> "R"
      [] c = "s" -> "S"
      [] c = "t" -> "T"
      [] c = "u" -> "U"
      [] c = "v" -> "V"
      [] c = "w" -> "W"
      [] c = "x" -> "X"
      [] c = "y" -> "Y"
      [] c = "z" -> "Z"
      [] OTHER -> c

\* str.upper()
Upper(s) == [i \in 1..Len(s) |-> UpperChar(s[i])]

\* the Python test  a in b  on strings: a occurs in b as a contiguous run
IsSubstring(a, b) ==
    \E off \in 0..(Len(b) - Len(a)) :
        \A i \in 1..Len(a) : b[off + i] = a[i]

\* route_number.replace("/", "_").replace("\\", "_")
Sanitize(s) == [i \in 1..Len(s) |-> IF s[i] \in {"/", "\\"} THEN "_" ELSE s[i]]

NoRoute == <<>>                 \* route_number = None (or the empty string: both falsy)
R30 == <<"3", "0">>
R31 == <<"3", "1">>
RB30 == <<"B", "3", "0">>
KeyDefault == <<"_", "d", "e", "f", "a", "u", "l", "t">>
TxtDefault == <<"d", "e", "f", "a", "u", "l", "t">>
TxtParsed == <<"p", "a", "r", "s", "e", "d">>

\* the components asleep: no text parsed yet, no conversation stored, no
\* request served
NoParses == [locals |-> <<>>, calls |-> <<>>]
NoMemory == [db |-> <<>>, cache |-> <<>>]
NoChat == [logs |-> <<>>, served |-> <<>>, safety_checks |-> 0, agent_calls |-> 0]

----------------------------------------------------------------------------
(* Configuration: _load_pdf_urls *)

NoUrl == ""
U30 == "http://pvta/30.pdf"
U31 == "http://pvta/31.pdf"
UAll == "http://pvta/all.pdf"

Item(k, u) == [key |-> k, url |-> u]

\* values of BUS_SCHEDULE_PDF_URLS: unset, not JSON, a JSON object (in key
\* order), or JSON that is not an object (an array of URLs)
EnvConfigs ==
    { [kind |-> "unset", items |-> <<>>],
      [kind |-> "invalid", items |-> <<>>],
      [kind |-> "dict", items |-> <<>>],
      [kind |-> "dict", items |-> <<Item(R31, U31)>>],
      [kind |-> "dict", items |-> <<Item(R31, U31), Item(R30, U30)>>],
      [kind |-> "dict", items |-> <<Item(R30, U30), Item(KeyDefault, UAll)>>],
      [kind |-> "dict", items |-> <<Item(R30, NoUrl), Item(KeyDefault, UAll)>>],
      [kind |-> "list", items |-> <<Item(NoRoute, U30)>>] }

\* values of BUS_SCHEDULE_PDF_URL (legacy): unset or one URL
EnvSingles == {NoUrl, UAll}

\* dict lookup helpers over the insertion-ordered items
HasKey(items, k) == \E i \in 1..Len(items) : items[i].key = k
Lookup(items, k) == items[CHOOSE i \in 1..Len(items) : items[i].key = k].url

\* _load_pdf_urls: json.loads keeps whatever JSON value it parsed in urls; only a
\* dict is returned at once. The legacy URL is then stored with
\* urls["_default"] = ..., which raises TypeError when urls is a list.
load_pdf_urls(config, single) ==
    LET parsed == config.kind \in {"dict", "list"}
        urls == IF parsed THEN [kind |-> config.kind, items |-> config.items]
                ELSE [kind |-> "dict", items |-> <<>>]
    IN  IF parsed /\ urls.kind = "dict"
        THEN [raised |-> FALSE, urls |-> urls]
        ELSE IF single # NoUrl
             THEN IF urls.kind = "dict"
                  THEN [raised |-> FALSE,
                        urls |-> [kind |-> "dict",
                                  items |-> Append(urls.items, Item(KeyDefault, single))]]
                  ELSE [raised |-> TRUE, urls |-> urls]
             ELSE [raised |-> FALSE, urls |-> urls]

----------------------------------------------------------------------------
(* Cache files *)

\* a ParseResult as parse_pdf builds it (lines 546-551); doc names the document
\* whose parse the schedules are
NoData == [doc |-> 0, parsed_at |-> 0, source_url |-> NoUrl, route_number |-> NoRoute]

\* a file of cache_dir: ok is whether its content deserialises (json.load)
NoFile == [exists |-> FALSE, mtime |-> 0, ok |-> FALSE, data |-> NoData]

\* _get_cache_path, as the variable part of the file name:
\* bus_schedule_<route_safe>.json, or bus_schedule_parsed.json
get_cache_path(route_number) ==
    IF route_number # NoRoute THEN Sanitize(route_number) ELSE TxtParsed

\* the hour-of-wall-clock axis: datetime.fromtimestamp gives the host's local
\* wall clock, naive
fromtimestamp(ts) == ts + hostUtcOffset

EST_UTC_OFFSET == -5
max_age_hours == 24

\* EST.localize(naive) / naive.replace(tzinfo=EST): the naive wall clock read as
\* Eastern time, back as an instant
localize(wall) == wall - EST_UTC_OFFSET

\* _is_cache_valid
is_cache_valid(file) ==
    /\ file.exists
    /\ LET file_time == localize(fromtimestamp(file.mtime))
           age == now - file_time
       IN  age < max_age_hours

\* _load_cache: the data, or None (hasData = FALSE)
load_cache(file) ==
    IF is_cache_valid(file) /\ file.ok
    THEN [hasData |-> TRUE, data |-> file.data]
    ELSE [hasData |-> FALSE, data |-> NoData]

\* _save_cache under the three outcomes of the write: "ok"; "open" (open()
\* raises, the file is untouched); "torn" (json.dump raises after open()
\* truncated the file: a partial file is left). The exception is swallowed.
save_cache(file, data, wr) ==
    CASE wr = "ok" -> [exists |-> TRUE, mtime |-> now, ok |-> TRUE, data |-> data]
      [] wr = "torn" -> [exists |-> TRUE, mtime |-> now, ok |-> FALSE, data |-> NoData]
      [] OTHER -> file

----------------------------------------------------------------------------
(* parse_pdf *)

\* resolve_url with the last configured URL as the fallback instead of the first
resolve_url_last(route_number) ==
    LET items == pdf_urls.items
    IN  IF route_number # NoRoute /\ HasKey(items, route_number)
        THEN Lookup(items, route_number)
        ELSE IF HasKey(items, KeyDefault)
             THEN Lookup(items, KeyDefault)
             ELSE IF Len(items) > 0 THEN items[Len(items)].url ELSE NoUrl

\* lines 482-493: the URL parse_pdf settles on (NoUrl when there is none)
resolve_url(route_number) ==
    LET items == pdf_urls.items
    IN  IF route_number # NoRoute /\ HasKey(items, route_number)
        THEN Lookup(items, route_number)
        ELSE IF HasKey(items, KeyDefault)
             THEN Lookup(items, KeyDefault)
             ELSE IF Len(items) > 0 THEN items[1].url ELSE NoUrl

\* lines 484-492 on a pdf_urls that is not a dict: a non-empty list answers the
\* two "in" tests and then fails on [key] (TypeError) or .values() (AttributeError)
resolve_raises == pdf_urls.kind # "dict" /\ Len(pdf_urls.items) > 0

Ok(data) == [error |-> "none", route |-> NoRoute, data |-> data]
Err(kind, route) == [error |-> kind, route |-> route, data |-> NoData]

\* the environment of one parse_pdf call: dl = 0 when the download fails (or
\* yields no bytes), else the document served; ex: text extraction succeeds;
\* wr: outcome of the cache write
Envs == [dl : 0..NumDocs, ex : BOOLEAN, wr : {"ok", "open", "torn"}]

\* download_failed with an error that never names the route
download_failed_unnamed(c, path, route_number, loads) ==
    LET file == c[path]
        stale == load_cache(file)
    IN  [raised |-> FALSE, cache |-> c, downloads |-> 1,
         loads |-> IF file.exists THEN loads + 1 ELSE loads, dl |-> "failed",
         ret |-> IF file.exists /\ stale.hasData THEN Ok(stale.data)
                 ELSE Err("download", TxtDefault)]

\* lines 512-520: the download failed
download_failed(c, path, route_number, loads) ==
    LET file == c[path]
        stale == load_cache(file)
        err == Err("download", IF route_number # NoRoute THEN route_number ELSE TxtDefault)
    IN  IF file.exists
        THEN [raised |-> FALSE, cache |-> c, downloads |-> 1, loads |-> loads + 1,
              dl |-> "failed",
              ret |-> IF stale.hasData THEN Ok(stale.data) ELSE err]
        ELSE [raised |-> FALSE, cache |-> c, downloads |-> 1, loads |-> loads,
              dl |-> "failed", ret |-> err]

\* download_succeeded with a fallback to the cache file when extraction fails
download_succeeded_fallback(c, path, route_number, url, env, loads) ==
    IF ~env.ex
    THEN [raised |-> FALSE, cache |-> c, downloads |-> 1, loads |-> loads + 1,
          dl |-> "ok",
          ret |-> IF c[path].exists /\ c[path].ok THEN Ok(c[path].data)
                  ELSE Err("extract", NoRoute)]
    ELSE LET result == [doc |-> env.dl, parsed_at |-> now, source_url |-> url,
                        route_number |-> route_number]
         IN  [raised |-> FALSE,
              cache |-> [c EXCEPT ![path] = save_cache(c[path], result, env.wr)],
              downloads |-> 1, loads |-> loads, dl |-> "ok", ret |-> Ok(result)]

\* lines 522-557: the download succeeded with document env.dl
download_succeeded(c, path, route_number, url, env, loads) ==
    IF ~env.ex
    THEN [raised |-> FALSE, cache |-> c, downloads |-> 1, loads |-> loads,
          dl |-> "ok", ret |-> Err("extract", NoRoute)]
    ELSE LET result == [doc |-> env.dl, parsed_at |-> now, source_url |-> url,
                        route_number |-> route_number]
         IN  [raised |-> FALSE,
              cache |-> [c EXCEPT ![path] = save_cache(c[path], result, env.wr)],
              downloads |-> 1, loads |-> loads, dl |-> "ok", ret |-> Ok(result)]

\* lines 482-557 once pdf_url is settled
parse_with_url(c, route_number, use_cache, env, url) ==
    LET path == get_cache_path(route_number)
        cached == load_cache(c[path])
        loads == IF use_cache THEN 1 ELSE 0
    IN  IF url = NoUrl
        THEN [raised |-> FALSE, cache |-> c, downloads |-> 0, loads |-> 0,
              dl |-> "none", ret |-> Err("config", NoRoute)]
        ELSE IF use_cache /\ cached.hasData
        THEN [raised |-> FALSE, cache |-> c, downloads |-> 0, loads |-> 1,
              dl |-> "none", ret |-> Ok(cached.data)]
        ELSE IF env.dl = 0
        THEN download_failed(c, path, route_number, loads)
        ELSE download_succeeded(c, path, route_number, url, env, loads)

\* parse_pdf(route_number, use_cache) on the cache files c: what it returns
\* (ret) or that it raised, the files it leaves, how many downloads and cache
\* loads it made, how the download ended (dl) and the pdf_url it settled on
parse_pdf(c, route_number, use_cache, env) ==
    IF resolve_raises
    THEN [raised |-> TRUE, cache |-> c, downloads |-> 0, loads |-> 0, dl |-> "none",
          ret |-> Err("raised", NoRoute), url |-> NoUrl]
    ELSE LET url == resolve_url(route_number)
             r == parse_with_url(c, route_number, use_cache, env, url)
         IN  [raised |-> r.raised, cache |-> r.cache, downloads |-> r.downloads,
              loads |-> r.loads, dl |-> r.dl, ret |-> r.ret, url |-> url]

----------------------------------------------------------------------------
(* Parsed schedules *)

\* a departure token \d{1,2}:\d{2}\s*(AM|PM|am|pm) of a schedule line
Tok(h, m, ap) == [h |-> h, m |-> m, ap |-> ap]

\* a line of raw_text / schedule_lines: its text before the times (name) and
\* its departure tokens, in order
Line(name, toks) == [name |-> name, toks |-> toks]

\* a route of a ParseResult's schedules, as far as the queries read it
Route(route_number, raw_text, schedule_lines) ==
    [route_number |-> route_number, raw_text |-> raw_text,
     schedule_lines |-> schedule_lines]

\* lines 445-476 on the lines of a route: the rows with at least 3 times, or
\* failing any, the lines with a time
schedule_lines_of(raw_text) ==
    LET is_row(line) == Len(line.toks) >= 3
        has_time(line) == Len(line.toks) >= 1
    IN  IF Len(SelectSeq(raw_text, is_row)) > 0
        THEN SelectSeq(raw_text, is_row)
        ELSE SelectSeq(raw_text, has_time)

\* a route as _parse_schedule_text leaves it: the heading line, then its lines
ParsedRoute(route_number, lines) ==
    Route(route_number, <<Line(route_number, <<>>)>> \o lines,
          schedule_lines_of(lines))

Campus == <<"C", "a", "m", "p", "u", "s">>
Depot == <<"D", "e", "p", "o", "t">>

\* the schedules _parse_schedule_text gives for the documents an upstream URL
\* may serve, as the ordered dict route key -> route. Document 1 lists routes
\* 30, B30 and 31; document 2 is a later edition without route 30.
DocSchedules(doc) ==
    CASE doc = 1 ->
            << ParsedRoute(R30, <<Line(Campus, <<Tok(2, 0, "PM"), Tok(4, 30, "PM"),
                                                 Tok(6, 0, "PM")>>)>>),
               ParsedRoute(RB30, <<Line(Depot, <<Tok(7, 15, "pm")>>)>>),
               ParsedRoute(R31, <<Line(Depot, <<Tok(12, 5, "AM")>>)>>) >>
      [] doc = 2 ->
            << ParsedRoute(R31, <<Line(Depot, <<Tok(12, 5, "AM")>>)>>) >>
      [] OTHER ->
            << ParsedRoute(R31, <<Line(Depot, <<Tok(5, 45, "PM")>>)>>) >>

----------------------------------------------------------------------------
(* find_route *)

Head_n(s, n) == SubSeq(s, 1, IF Len(s) < n THEN Len(s) ELSE n)

\* route_matches with the containment tested one way only
route_matches_one_way(route_number, route_num) ==
    IsSubstring(Upper(route_number), Upper(route_num))

\* line 611: the route-number test
route_matches(route_number, route_num) ==
    \/ IsSubstring(Upper(route_number), Upper(route_num))
    \/ IsSubstring(Upper(route_num), Upper(route_number))

\* lines 603-633 with route_name = None: the summaries of the matching routes,
\* in the order of the schedules; raw_text and schedule_lines are cut to their
\* first 20 and 10 lines
match_routes(schedules, route_number) ==
    LET keep(r) == IF route_number # NoRoute
                   THEN route_matches(route_number, r.route_number)
                   ELSE TRUE
        kept == SelectSeq(schedules, keep)
    IN  [i \in 1..Len(kept) |->
            Route(kept[i].route_number, Head_n(kept[i].raw_text, 20),
                  Head_n(kept[i].schedule_lines, 10))]

\* lines 585-598: the route_number find_route passes to parse_pdf; called only
\* when pdf_urls is not empty
find_route_arg(route_number) ==
    LET items == pdf_urls.items
    IN  IF route_number # NoRoute /\ HasKey(items, route_number)
        THEN route_number
        ELSE IF route_number # NoRoute /\ HasKey(items, KeyDefault)
             THEN NoRoute
             ELSE IF items[1].key # KeyDefault THEN items[1].key ELSE NoRoute

\* find_route(route_number): the list it returns (or that it raised), the files
\* it leaves, the ParseResult it matched against
find_route(c, route_number, env) ==
    IF resolve_raises
    THEN [raised |-> TRUE, cache |-> c, routes |-> <<>>, downloads |-> 0, loads |-> 0,
          parsed |-> Err("raised", NoRoute)]
    ELSE IF Len(pdf_urls.items) = 0
    THEN [raised |-> FALSE, cache |-> c, routes |-> <<>>, downloads |-> 0, loads |-> 0,
          parsed |-> Err("skipped", NoRoute)]
    ELSE LET r == parse_pdf(c, find_route_arg(route_number), TRUE, env)
         IN  [raised |-> r.raised, cache |-> r.cache, downloads |-> r.downloads,
              loads |-> r.loads, parsed |-> r.ret,
              routes |-> IF r.ret.error # "none" THEN <<>>
                         ELSE match_routes(DocSchedules(r.ret.data.doc), route_number)]

----------------------------------------------------------------------------
(* get_next_bus_times: the query engine, lines 673-728 *)

Day == 24 * 60 * 2      \* ticks (half-minutes) of a day
At(h, m) == (h * 60 + m) * 2

\* str.lower() for the comparison of line 686 (case folding, as Upper)
Lower(s) == Upper(s)

\* am_pm.upper() on the marker the pattern captured (AM, PM, am or pm)
upper_am_pm(am_pm) ==
    CASE am_pm = "am" -> "AM"
      [] am_pm = "pm" -> "PM"
      [] OTHER -> am_pm

\* to_24h without the 12 AM case
to_24h_no_midnight(hour, am_pm) ==
    IF upper_am_pm(am_pm) = "PM" /\ hour # 12 THEN hour + 12 ELSE hour

\* lines 699-702: the hour on the 24-hour clock
to_24h(hour, am_pm) ==
    IF upper_am_pm(am_pm) = "PM" /\ hour # 12 THEN hour + 12
    ELSE IF upper_am_pm(am_pm) = "AM" /\ hour = 12 THEN 0
    ELSE hour

\* datetime.replace(hour=, minute=) raises ValueError outside these ranges
replace_ok(hour, minute) == hour \in 0..23 /\ minute \in 0..59

\* bus_time without the move to the next day
bus_time_no_rollover(tok, current_time) ==
    (current_time \div Day) * Day + At(to_24h(tok.h, tok.ap), tok.m)

\* lines 706-710: the departure on the date of current_time (seconds cleared),
\* moved to the next day when it has passed
bus_time(tok, current_time) ==
    LET hour == to_24h(tok.h, tok.ap)
        today == (current_time \div Day) * Day + At(hour, tok.m)
    IN  IF today < current_time THEN today + Day ELSE today

\* lines 680-687: the lines of one route that are scanned
text_to_parse(route, stop) ==
    LET text == IF Len(route.schedule_lines) > 0 THEN route.schedule_lines
                ELSE route.raw_text
        has_stop(line) == IsSubstring(Lower(stop), Lower(line.name))
    IN  IF stop # NoRoute THEN SelectSeq(text, has_stop) ELSE text

\* lines 690-715 for one line: the departures of its tokens; a token whose
\* hour or minute datetime.replace refuses is passed over
line_times(line, current_time) ==
    { bus_time(line.toks[k], current_time) :
        k \in { j \in 1..Len(line.toks) :
                  replace_ok(to_24h(line.toks[j].h, line.toks[j].ap), line.toks[j].m) } }

\* lines 674-715: all_times, as the set of its members (it is only used
\* through set(...) and a filter)
all_times(routes, stop, current_time) ==
    UNION { LET text == text_to_parse(routes[r], stop)
            IN  UNION { line_times(text[l], current_time) : l \in 1..Len(text) } :
            r \in 1..Len(routes) }

SetMin(S) == CHOOSE x \in S : \A y \in S : x <= y

RECURSIVE sorted(_)
\* sorted(set)
sorted(S) == IF S = {} THEN <<>> ELSE <<SetMin(S)>> \o sorted(S \ {SetMin(S)})

next_limit == 10

\* future_times without the cut to the first next_limit
future_times_uncapped(routes, stop, current_time) ==
    sorted({t \in all_times(routes, stop, current_time) : t > current_time})

\* future_times keeping only the departures of the date of current_time
future_times_today_only(routes, stop, current_time) ==
    Head_n(sorted({t \in all_times(routes, stop, current_time) :
                     t > current_time /\ t \div Day = current_time \div Day}),
           next_limit)

\* lines 718-719
future_times(routes, stop, current_time) ==
    Head_n(sorted({t \in all_times(routes, stop, current_time) : t > current_time}),
           next_limit)

\* strftime("%I:%M %p"): hour on the 12-hour clock, minute, AM/PM
strftime_12h(t) ==
    LET hour == (t \div 120) % 24
    IN  [h |-> IF hour % 12 = 0 THEN 12 ELSE hour % 12,
         m |-> (t \div 2) % 60,
         ap |-> IF hour < 12 THEN "AM" ELSE "PM"]

\* strftime("%H:%M")
strftime_24h(t) == [h |-> (t \div 120) % 24, m |-> (t \div 2) % 60]

\* lines 721-728: the value returned on success
next_bus_result(routes, stop, current_time) ==
    LET ft == future_times(routes, stop, current_time)
    IN  [all_times |-> all_times(routes, stop, current_time),
         future_times |-> ft,
         next_times |-> [i \in 1..Len(ft) |-> strftime_12h(ft[i])],
         next_times_24h |-> [i \in 1..Len(ft) |-> strftime_24h(ft[i])]]

NoTimes == [all_times |-> {}, future_times |-> <<>>, next_times |-> <<>>, next_times_24h |-> <<>>]

----------------------------------------------------------------------------
(* The state machine of the public API *)

Paths == {TxtParsed, R30, R31}
RouteArgs == {NoRoute, R30}
Queries == {NoRoute, R30, <<"b", "3">>, <<"b", "3", "0">>}
Stops == {NoRoute, <<"c", "a", "m">>}
CurrentTimes == {At(16, 0)}

NoInput == [routes |-> <<>>, stop |-> NoRoute, current_time |-> 0]

\* the record of a call: its arguments; pre, the cache file of route_number as
\* the call found it; url, dl: the pdf_url parse_pdf settled on and how its
\* download ended; ret: the value returned; first: what get_next_bus_times'
\* own parse_pdf returned; parsed: what find_route's parse_pdf returned;
\* routes: find_route's list; times: the times computed
NoCall == [op |-> "none", route_number |-> NoRoute, use_cache |-> FALSE,
           stop |-> NoRoute, current_time |-> 0,
           pre |-> NoFile, raised |-> FALSE, ret |-> Err("none", NoRoute),
           url |-> NoUrl, dl |-> "none", extracted |-> FALSE, written |-> FALSE,
           downloads |-> 0, loads |-> 0,
           first |-> Err("none", NoRoute),
           parsed |-> Err("none", NoRoute), routes |-> <<>>, times |-> NoTimes]

\* cache_dir as the constructor finds it: empty, or holding one file written by
\* an earlier run of the program
InitialCaches ==
    {[p \in Paths |-> NoFile]} \cup
    { [p \in Paths |-> IF p = q
                       THEN [exists |-> TRUE, mtime |-> 0, ok |-> TRUE,
                             data |-> [doc |-> 1, parsed_at |-> 0, source_url |-> UAll,
                                       route_number |-> IF q = TxtParsed THEN NoRoute ELSE q]]
                       ELSE NoFile] : q \in {TxtParsed, R30} }

\* __init__ (lines 40-56)
Init ==
    \E config \in EnvConfigs, single \in EnvSingles :
        LET r == load_pdf_urls(config, single)
        IN  /\ constructed = ~r.raised
            /\ pdf_urls = r.urls
            /\ hostUtcOffset \in HostUtcOffsets
            /\ now = 0
            /\ cache \in InitialCaches
            /\ last = NoCall
            /\ pc = "idle"
            /\ inp = NoInput
            /\ parses = NoParses
            /\ memory = NoMemory
            /\ chat = NoChat

\* time passes between calls
Tick ==
    /\ pc = "idle"
    /\ \E d \in TickSteps :
        /\ now + d <= MaxNow
        /\ now' = now + d
    /\ UNCHANGED <<parses, memory, chat, pc, inp, constructed, pdf_urls, hostUtcOffset, cache, last>>

\* a caller invokes parse_pdf
ParsePdf ==
    /\ pc = "idle"
    /\ constructed
    /\ \E route_number \in RouteArgs, use_cache \in BOOLEAN, env \in Envs :
        LET r == parse_pdf(cache, route_number, use_cache, env)
        IN  /\ cache' = r.cache
            /\ last' = [NoCall EXCEPT !.op = "parse_pdf",
                            !.route_number = route_number,
                            !.use_cache = use_cache,
                            !.pre = cache[get_cache_path(route_number)],
                            !.raised = r.raised, !.ret = r.ret,
                            !.url = r.url, !.dl = r.dl,
                            !.extracted = (r.dl = "ok" /\ env.ex),
                            !.written = (r.dl = "ok" /\ env.ex /\ env.wr = "ok"),
                            !.downloads = r.downloads, !.loads = r.loads]
    /\ pc' = "returned"
    /\ UNCHANGED <<parses, memory, chat, inp, constructed, pdf_urls, hostUtcOffset, now>>

\* a caller invokes find_route(route_number)
FindRoute ==
    /\ pc = "idle"
    /\ constructed
    /\ \E route_number \in Queries, env \in Envs :
        LET r == find_route(cache, route_number, env)
        IN  /\ cache' = r.cache
            /\ last' = [NoCall EXCEPT !.op = "find_route",
                            !.route_number = route_number,
                            !.raised = r.raised, !.parsed = r.parsed,
                            !.routes = r.routes,
                            !.downloads = r.downloads, !.loads = r.loads]
    /\ pc' = "returned"
    /\ UNCHANGED <<parses, memory, chat, inp, constructed, pdf_urls, hostUtcOffset, now>>

\* a caller invokes get_next_bus_times; lines 642-662: its own parse_pdf call
GetNextBusTimes ==
    /\ pc = "idle"
    /\ constructed
    /\ \E route_number \in RouteArgs, stop \in Stops, current_time \in CurrentTimes,
          env \in Envs :
        LET r == parse_pdf(cache, route_number, TRUE, env)
        IN  /\ cache' = r.cache
            /\ last' = [NoCall EXCEPT !.op = "get_next_bus_times",
                            !.route_number = route_number,
                            !.stop = stop, !.current_time = current_time,
                            !.pre = cache[get_cache_path(route_number)],
                            !.raised = r.raised, !.ret = r.ret, !.first = r.ret,
                            !.url = r.url, !.dl = r.dl,
                            !.downloads = r.downloads, !.loads = r.loads]
            /\ pc' = IF r.raised \/ r.ret.error # "none" THEN "returned" ELSE "find"
    /\ UNCHANGED <<parses, memory, chat, inp, constructed, pdf_urls, hostUtcOffset, now>>

\* lines 664-728: get_next_bus_times goes on with find_route and the times
GetNextBusTimesFind ==
    /\ pc = "find"
    /\ \E env \in Envs :
        LET f == find_route(cache, last.route_number, env)
        IN  /\ cache' = f.cache
            /\ last' = [last EXCEPT
                            !.raised = f.raised, !.parsed = f.parsed,
                            !.routes = f.routes,
                            !.downloads = last.downloads + f.downloads,
                            !.loads = last.loads + f.loads,
                            !.ret = IF Len(f.routes) = 0
                                    THEN Err("no_route", last.route_number)
                                    ELSE last.ret,
                            !.times = IF Len(f.routes) = 0 THEN NoTimes
                                      ELSE next_bus_result(f.routes, last.stop,
                                                           last.current_time)]
    /\ pc' = "returned"
    /\ UNCHANGED <<parses, memory, chat, inp, constructed, pdf_urls, hostUtcOffset, now>>

\* the caller has its answer
Return ==
    /\ pc = "returned"
    /\ pc' = "idle"
    /\ last' = NoCall
    /\ UNCHANGED <<parses, memory, chat, inp, constructed, pdf_urls, hostUtcOffset, now, cache>>

\* the fetch-and-cache layer: parse_pdf called over time
Next == Tick \/ ParsePdf \/ Return

Spec == Init /\ [][Next]_vars

\* the query API over a cache_dir that starts empty, on a host whose local
\* zone is US/Eastern
InitQuery ==
    /\ Init
    /\ hostUtcOffset = EST_UTC_OFFSET
    /\ \A p \in Paths : ~cache[p].exists

NextQuery == FindRoute \/ GetNextBusTimes \/ GetNextBusTimesFind \/ Return

SpecQuery == InitQuery /\ [][NextQuery]_vars

----------------------------------------------------------------------------
(* The query engine on its own: lines 673-728 over schedules and clocks drawn
   from bounded sets *)

MaxLineToks == 3    \* tokens of the drawn schedule line
MaxHour == 24       \* largest hour written in a drawn single-token line

AmPm == {"AM", "PM", "am", "pm"}
Minutes == {0, 10, 59, 60, 75}

\* tokens the drawn lines are built from: midnight and noon hours, a departure
\* at 16:00, past and coming ones, and two that datetime.replace refuses
TokPool ==
    { Tok(12, 10, "AM"), Tok(12, 0, "PM"), Tok(2, 0, "PM"), Tok(4, 0, "PM"),
      Tok(4, 30, "pm"), Tok(11, 55, "PM"), Tok(13, 0, "PM"), Tok(9, 75, "AM") }

TokSeqs == UNION { [1..n -> TokPool] : n \in 0..MaxLineToks }

\* current_time: 16:00:00, 16:00:30 and 23:50:00 of day 0
QueryTimes == {At(16, 0), At(16, 0) + 1, At(23, 50)}

\* what find_route hands over for route 30 of a document holding these lines
Summaries(lines) == match_routes(<<ParsedRoute(R30, lines)>>, R30)

EveningRow1 ==
    Line(Campus, <<Tok(5, 0, "PM"), Tok(5, 30, "PM"), Tok(6, 0, "PM"),
                   Tok(6, 30, "PM"), Tok(7, 0, "PM"), Tok(7, 30, "PM")>>)
EveningRow2 ==
    Line(Depot, <<Tok(8, 0, "PM"), Tok(8, 30, "PM"), Tok(9, 0, "PM"),
                  Tok(9, 30, "PM"), Tok(10, 0, "PM"), Tok(10, 30, "PM"),
                  Tok(5, 0, "PM")>>)

\* the schedule of route 30 with departures 14:00, 16:30 and 18:00
AfternoonRow == Line(Campus, <<Tok(2, 0, "PM"), Tok(4, 30, "PM"), Tok(6, 0, "PM")>>)

\* a schedule of MaxRows + 1 rows: AfternoonRow MaxRows times over, then a row
\* of the stop Depot with departures no row above it has
MaxRows == 10
DepotRow == Line(Depot, <<Tok(5, 0, "PM"), Tok(5, 30, "PM"), Tok(6, 0, "PM")>>)
LongSchedule == [i \in 1..(MaxRows + 1) |-> IF i <= MaxRows THEN AfternoonRow ELSE DepotRow]

\* a query: the lines of route 30 in the document (after its heading), what
\* find_route hands over for them, the stop asked for and the time
TimesInput(lines, stop, current_time) ==
    [lines |-> lines, routes |-> Summaries(lines), stop |-> stop,
     current_time |-> current_time]

TimesInputs ==
    { TimesInput(<<Line(Campus, toks)>>, NoRoute, ct) :
        toks \in TokSeqs, ct \in QueryTimes }
    \cup
    { TimesInput(<<Line(Campus, <<Tok(h, m, ap)>>)>>, NoRoute, ct) :
        h \in 0..MaxHour, m \in Minutes, ap \in AmPm, ct \in QueryTimes }
    \cup
    { TimesInput(lines, stop, ct) :
        lines \in { <<AfternoonRow>>, <<EveningRow1, EveningRow2>>,
                    <<EveningRow1, Line(Depot, <<Tok(11, 0, "PM")>>)>> },
        stop \in Stops, ct \in QueryTimes }
    \cup
    { TimesInput(LongSchedule, stop, ct) :
        stop \in {NoRoute, <<"d", "e", "p", "o", "t">>}, ct \in QueryTimes }

InitTimes ==
    /\ inp \in TimesInputs
    /\ constructed = TRUE
    /\ pdf_urls = [kind |-> "dict", items |-> <<Item(R30, U30)>>]
    /\ hostUtcOffset = EST_UTC_OFFSET
    /\ now = 0
    /\ cache = [p \in Paths |-> NoFile]
    /\ last = NoCall
    /\ pc = "idle"
    /\ parses = NoParses
    /\ memory = NoMemory
    /\ chat = NoChat

\* lines 673-728 of get_next_bus_times, on the routes find_route returned
QueryEngine ==
    /\ pc = "idle"
    /\ Len(inp.routes) > 0
    /\ last' = [NoCall EXCEPT !.op = "query_engine",
                    !.route_number = R30, !.stop = inp.stop,
                    !.current_time = inp.current_time, !.routes = inp.routes,
                    !.times = next_bus_result(inp.routes, inp.stop, inp.current_time)]
    /\ pc' = "returned"
    /\ UNCHANGED <<parses, memory, chat, inp, constructed, pdf_urls, hostUtcOffset, now, cache>>

NextTimes == QueryEngine

SpecTimes == InitTimes /\ [][NextTimes]_vars

----------------------------------------------------------------------------
(* The text pass: _parse_schedule_text and _parse_route_details *)

\* str.lower() on one character
LowerChar(c) ==
    CASE c = "A" -> "a"
      [] c = "B" -> "b"
      [] c = "C" -> "c"
      [] c = "D" -> "d"
      [] c = "E" -> "e"
      [] c = "F" -> "f"
      [] c = "G" -> "g"
      [] c = "H" -> "h"
      [] c = "I" -> "i"
      [] c = "J" -> "j"
      [] c = "K" -> "k"
      [] c = "L" -> "l"
      [] c = "M" -> "m"
      [] c = "N" -> "n"
      [] c = "O" -> "o"
      [] c = "P" -> "p"
      [] c = "Q" -> "q"
      [] c = "R" -> "r"
      [] c = "S" -> "s"
      [] c = "T" -> "t"
      [] c = "U" -> "u"
      [] c = "V" -> "v"
      [] c = "W" -> "w"
      [] c = "X" -> "x"
      [] c = "Y" -> "y"
      [] c = "Z" -> "z"
      [] OTHER -> c

Letters == {"A", "B", "C", "D", "E", "F", "G", "H", "I", "J", "K", "L", "M", "N", "O", "P", "Q", "R", "S", "T", "U", "V", "W", "X", "Y", "Z"}
Digits == <<"0", "1", "2", "3", "4", "5", "6", "7", "8", "9">>

IsLetter(c) == UpperChar(c) \in Letters
IsDigit(c) == \E d \in 1..10 : Digits[d] = c

\* str.capitalize(): the first character upper case, the others lower case
capitalize(w) == [i \in 1..Len(w) |-> IF i = 1 THEN UpperChar(w[i]) ELSE LowerChar(w[i])]

\* ' '.join(words)
RECURSIVE join(_)
join(words) ==
    IF Len(words) = 0 THEN <<>>
    ELSE IF Len(words) = 1 THEN words[1]
    ELSE words[1] \o <<" ">> \o join(Tail(words))

EndsWith(w, suffix) ==
    Len(w) >= Len(suffix) /\ SubSeq(w, Len(w) - Len(suffix) + 1, Len(w)) = suffix

\* words of the texts drawn below
WRoute == <<"R", "o", "u", "t", "e">>
WLeave == <<"L", "E", "A", "V", "E">>
WArrive == <<"A", "R", "R", "I", "V", "E">>
WTo == <<"T", "o">>
WFrom == <<"F", "r", "o", "m">>
WOf == <<"o", "f">>
WMain == <<"M", "a", "i", "n">>
WMainLower == <<"m", "a", "i", "n">>
WMainUpper == <<"M", "A", "I", "N">>
WHall == <<"H", "a", "l", "l">>
WHallLower == <<"h", "a", "l", "l">>
WPark == <<"P", "a", "r", "k">>
WAb == <<"a", "b">>
WA == <<"a">>
WUmass == <<"u", "m", "a", "s", "s">>
WAmherst == <<"A", "m", "h", "e", "r", "s", "t">>
WCenter == <<"C", "e", "n", "t", "e", "r">>
AllKey == <<"A", "l", "l">>

\* lines 302-303
skip_words ==
    { <<"L", "E", "A", "V", "E">>,
      <<"A", "R", "R", "I", "V", "E">>,
      <<"T", "O">>,
      <<"F", "R", "O", "M">>,
      <<"P", "V", "T", "A">>,
      <<"T", "H", "E">>,
      <<"O", "F", "F", "I", "C", "I", "A", "L">>,
      <<"R", "E", "A", "L">>,
      <<"T", "I", "M", "E">>,
      <<"I", "N", "F", "O", "R", "M", "A", "T", "I", "O", "N">>,
      <<"A", "P", "P">>,
      <<"O", "F">>,
      <<"W", "E", "E", "K", "D", "A", "Y">>,
      <<"W", "E", "E", "K", "E", "N", "D">>,
      <<"S", "E", "R", "V", "I", "C", "E">>,
      <<"F", "U", "L", "L">> }

\* lines 313-316
stop_indicators ==
    { <<"A", "P", "T", "S">>,
      <<"A", "P", "T">>,
      <<"B", "U", "I", "L", "D", "I", "N", "G">>,
      <<"C", "E", "N", "T", "E", "R">>,
      <<"S", "T", "A", "T", "I", "O", "N">>,
      <<"S", "T", "O", "P">>,
      <<"L", "A", "N", "E">>,
      <<"S", "T", "R", "E", "E", "T">>,
      <<"R", "O", "A", "D">>,
      <<"E", "S", "T", "A", "T", "E", "S">>,
      <<"V", "I", "L", "L", "A", "G", "E">>,
      <<"P", "O", "S", "T">>,
      <<"O", "F", "F", "I", "C", "E">>,
      <<"A", "R", "T", "S">>,
      <<"G", "R", "C">>,
      <<"P", "S", "B">>,
      <<"C", "O", "W", "L", "E", "S">>,
      <<"B", "O", "U", "L", "D", "E", "R", "S">>,
      <<"C", "L", "I", "F", "F", "S", "I", "D", "E">>,
      <<"S", "U", "G", "A", "R", "L", "O", "A", "F">>,
      <<"T", "O", "W", "N", "E", "H", "O", "U", "S", "E">>,
      <<"S", "U", "N", "D", "E", "R", "L", "A", "N", "D">>,
      <<"H", "A", "M", "P", "S", "H", "I", "R", "E">> }

\* line 378: the words written in upper case
upper_words ==
    { <<"A", "P", "T", "S">>,
      <<"A", "P", "T">>,
      <<"U", "M", "A", "S", "S">>,
      <<"G", "R", "C">>,
      <<"P", "S", "B">> }

\* a line of the extracted text, stripped: its words, then its time tokens
\* \d{1,2}:\d{2}, each followed by a blank and its AM/PM marker ("8:00 AM")
TextLine(words, toks) == [words |-> words, toks |-> toks, glued |-> FALSE]

\* the same with every marker written right after the minutes ("8:00AM")
GluedLine(words, toks) == [words |-> words, toks |-> toks, glued |-> TRUE]

\* a line that is empty once stripped
BlankLine == TextLine(<<>>, <<>>)

\* the pattern \d+[A-Z]? (re.I) on a whole word
is_route_token(w) ==
    /\ Len(w) >= 1
    /\ IsDigit(w[1])
    /\ \A i \in 1..(Len(w) - 1) : IsDigit(w[i])
    /\ IsDigit(w[Len(w)]) \/ IsLetter(w[Len(w)])

\* the pattern [A-Z]\d+ (re.I) on a whole word
is_letter_route_token(w) ==
    /\ Len(w) >= 2
    /\ IsLetter(w[1])
    /\ \A i \in 2..Len(w) : IsDigit(w[i])

\* the digits of an hour as the text has them (no leading zero)
hour_digits(h) ==
    IF h < 10 THEN <<Digits[h + 1]>> ELSE <<Digits[((h \div 10) % 10) + 1], Digits[(h % 10) + 1]>>

\* lines 190-208: the route number the heading patterns find at the start of
\* a line, upper-cased; NoRoute when none matches
route_heading(line) ==
    LET words == line.words
        n == Len(words)
        is_route_word == n >= 1 /\ Upper(words[1]) = Upper(WRoute)
    IN  CASE is_route_word /\ n >= 2 /\ is_route_token(words[2]) -> Upper(words[2])
          [] is_route_word /\ n = 1 /\ Len(line.toks) >= 1 -> hour_digits(line.toks[1].h)
          [] n = 1 /\ Len(line.toks) = 0 /\ is_route_token(words[1]) -> Upper(words[1])
          [] n >= 1 /\ (n >= 2 \/ Len(line.toks) >= 1) /\ is_route_token(words[1])
                -> Upper(words[1])
          [] is_route_word /\ n >= 2 /\ is_letter_route_token(words[2]) -> Upper(words[2])
          [] OTHER -> NoRoute

\* line 228 with the line put in front of the ones the route already has
append_raw_front(schedules, route_num, line) ==
    [r \in 1..Len(schedules) |->
        IF schedules[r].route_number = route_num
        THEN [schedules[r] EXCEPT !.raw_text = <<line>> \o @]
        ELSE schedules[r]]

\* a run that goes on from what the run before it left behind
parse_start_kept(prev) == prev

\* lines 183-187: what a run of _parse_schedule_text starts from, whatever an
\* earlier run (prev) worked with
parse_start(prev) == [schedules |-> <<>>, current_route |-> NoRoute]

HasRoute(schedules, route_num) ==
    \E r \in 1..Len(schedules) : schedules[r].route_number = route_num

\* line 228: the line goes to the raw_text of the current route
append_raw(schedules, route_num, line) ==
    [r \in 1..Len(schedules) |->
        IF schedules[r].route_number = route_num
        THEN [schedules[r] EXCEPT !.raw_text = Append(@, line)]
        ELSE schedules[r]]

\* lines 199-228 for one line
segment_line(st, line) ==
    IF line = BlankLine THEN st
    ELSE LET route_num == route_heading(line)
             opened == IF route_num # NoRoute /\ ~HasRoute(st.schedules, route_num)
                       THEN Append(st.schedules,
                                   [route_number |-> route_num, raw_text |-> <<>>])
                       ELSE st.schedules
             current == IF route_num # NoRoute THEN route_num ELSE st.current_route
         IN  [schedules |-> IF current # NoRoute
                            THEN append_raw(opened, current, line) ELSE opened,
              current_route |-> current]

\* lines 198-228: the lines of the text, top to bottom
RECURSIVE segment(_, _)
segment(st, lines) ==
    IF Len(lines) = 0 THEN st
    ELSE segment(segment_line(st, Head(lines)), Tail(lines))

NoDirection == <<>>

\* the longest run of letters and blanks a text starts with: what [A-Za-z\s]+
\* takes
RECURSIVE letter_run(_)
letter_run(s) ==
    IF Len(s) = 0 \/ ~(IsLetter(s[1]) \/ s[1] = " ") THEN <<>>
    ELSE <<s[1]>> \o letter_run(Tail(s))

\* str.strip() of a text that starts with a letter: the blanks at its end go
RECURSIVE strip_end(_)
strip_end(s) ==
    IF Len(s) > 0 /\ s[Len(s)] = " " THEN strip_end(SubSeq(s, 1, Len(s) - 1)) ELSE s

\* the text of a line after its i-th word
after_word(line, i) ==
    join(SubSeq(line.words, i + 1, Len(line.words)))
        \o (IF Len(line.toks) > 0 THEN <<" ">> ELSE <<>>)

\* lines 438-441: the direction a line announces, NoDirection when it has none.
\* The line must hold 'To ' or 'From ' as written; the name is what
\* (?:To|From)\s+([A-Z][A-Za-z\s]+) finds first, letter case ignored
direction_of(line) ==
    LET words == line.words
        n == Len(words)
        followed(i) == i < n \/ Len(line.toks) > 0
        gate == \E i \in 1..n :
                    (EndsWith(words[i], WTo) \/ EndsWith(words[i], WFrom)) /\ followed(i)
        hit(i) == /\ EndsWith(Upper(words[i]), Upper(WTo))
                     \/ EndsWith(Upper(words[i]), Upper(WFrom))
                  /\ i < n
                  /\ IsLetter(words[i + 1][1])
                  /\ Len(letter_run(after_word(line, i))) >= 2
        hits == {i \in 1..n : hit(i)}
        first == CHOOSE i \in hits : \A j \in hits : i <= j
    IN  IF gate /\ hits # {} THEN strip_end(letter_run(after_word(line, first)))
        ELSE NoDirection

\* the time written without leading zeros
time_str_unpadded(tok) ==
    (IF tok.h >= 10 THEN <<Digits[((tok.h \div 10) % 10) + 1]>> ELSE <<>>)
        \o << Digits[(tok.h % 10) + 1], ":" >>
        \o (IF tok.m >= 10 THEN <<Digits[((tok.m \div 10) % 10) + 1]>> ELSE <<>>)
        \o << Digits[(tok.m % 10) + 1] >>

\* line 454: f"{h:02d}:{m:02d}"
time_str(tok) ==
    << Digits[((tok.h \div 10) % 10) + 1], Digits[(tok.h % 10) + 1], ":",
       Digits[((tok.m \div 10) % 10) + 1], Digits[(tok.m % 10) + 1] >>

HasKeyOf(schedule_times, key) ==
    \E e \in 1..Len(schedule_times) : schedule_times[e].key = key

\* lines 462-467: the times of a row go into schedule_times
store_times(schedule_times, current_direction, times) ==
    IF Len(schedule_times) = 0
    THEN << [key |-> AllKey, has_times |-> TRUE, times |-> times] >>
    ELSE IF current_direction # NoDirection
    THEN [e \in 1..Len(schedule_times) |->
            IF schedule_times[e].key = current_direction
            THEN [key |-> current_direction, has_times |-> TRUE,
                  times |-> schedule_times[e].times \o times]
            ELSE schedule_times[e]]
    ELSE schedule_times

\* line 446: the tokens \b(\d{1,2}):(\d{2})\b finds on a line; the \b after
\* the minutes does not match between a digit and the letter of a marker
row_matches(line) == IF line.glued THEN <<>> ELSE line.toks

\* lines 434-467 for one line of raw_text
times_line(st, line) ==
    LET d == direction_of(line)
        direction == IF d # NoDirection THEN d ELSE st.current_direction
        keyed == IF d # NoDirection /\ ~HasKeyOf(st.schedule_times, d)
                 THEN Append(st.schedule_times,
                             [key |-> d, has_times |-> FALSE, times |-> <<>>])
                 ELSE st.schedule_times
        time_matches == row_matches(line)
        times == [k \in 1..Len(time_matches) |-> time_str(time_matches[k])]
    IN  IF Len(time_matches) >= 3
        THEN [schedule_times |-> store_times(keyed, direction, times),
              current_direction |-> direction,
              schedule_lines |-> Append(st.schedule_lines, line)]
        ELSE [schedule_times |-> keyed, current_direction |-> direction,
              schedule_lines |-> st.schedule_lines]

\* lines 431-469: the schedule-times pass over raw_text
RECURSIVE times_pass(_, _)
times_pass(st, raw_text) ==
    IF Len(raw_text) = 0 THEN st
    ELSE times_pass(times_line(st, Head(raw_text)), Tail(raw_text))

\* lines 471-476: schedule_lines, with the fallback to any line with a time
schedule_lines_pass(rows, raw_text) ==
    IF Len(rows) > 0 THEN rows
    ELSE SelectSeq(raw_text, LAMBDA line : Len(line.toks) >= 1)

\* lines 264-271: the first of the first 50 lines of raw_text that holds LEAVE
\* or ARRIVE, 0 when none does
header_line(raw_text) ==
    LET marks(line) == \E k \in 1..Len(line.words) :
                          \/ IsSubstring(WLeave, Upper(line.words[k]))
                          \/ IsSubstring(WArrive, Upper(line.words[k]))
        found == {i \in 1..Len(raw_text) : i <= 50 /\ marks(raw_text[i])}
    IN  IF found = {} THEN 0 ELSE CHOOSE i \in found : \A j \in found : i <= j

\* line 280: a line that ends the header: it holds a time, or starts with
\* 'TO ' or 'FROM '
ends_header(line) ==
    \/ Len(line.toks) > 0
    \/ /\ Len(line.words) >= 2
       /\ Upper(line.words[1]) \in {Upper(WTo), Upper(WFrom)}

\* line 284
service_labels ==
    { << <<"F", "U", "L", "L">>, <<"S", "E", "R", "V", "I", "C", "E">>,
         <<"W", "E", "E", "K", "D", "A", "Y">> >>,
      << <<"F", "U", "L", "L">>, <<"S", "E", "R", "V", "I", "C", "E">>,
         <<"W", "E", "E", "K", "E", "N", "D">> >> }

\* line.upper(), word by word
upper_words_of(line) == [k \in 1..Len(line.words) |-> Upper(line.words[k])]

InSeq(x, s) == \E i \in 1..Len(s) : s[i] = x

\* The header loop keeps stops_found in two parts: above, the stops of the
\* header lines above the current one, and st.stops_found, the stops the
\* current line has added; stops_found of the code is above \o st.stops_found.

\* lines 305-309 and 331-334: the words gathered so far become a stop
flush_stop(above, st) ==
    LET stop_name == join(st.current_stop)
    IN  IF Len(st.current_stop) = 0 THEN st
        ELSE [stops_found |-> IF /\ Len(stop_name) > 2
                                 /\ ~InSeq(stop_name, above \o st.stops_found)
                              THEN Append(st.stops_found, stop_name)
                              ELSE st.stops_found,
              current_stop |-> <<>>]

\* lines 298-328 for one word of a header line
\* (the words drawn below carry no punctuation for strip('.,;:') to take)
stop_word(above, st, word) ==
    LET word_clean == Upper(word)
        indicated == \E ind \in stop_indicators : IsSubstring(ind, word_clean)
        stops_found == above \o st.stops_found
    IN  IF word_clean \in skip_words THEN flush_stop(above, st)
        ELSE IF indicated \/ Len(word_clean) > 3
        THEN [st EXCEPT !.current_stop = Append(@, word)]
        ELSE IF Len(st.current_stop) > 0
        THEN [st EXCEPT !.current_stop = Append(@, word)]
        ELSE IF /\ Len(word_clean) > 4
                /\ word_clean \notin {Upper(WUmass), Upper(WAmherst)}
                /\ ~\E k \in 1..Len(stops_found) : Upper(stops_found[k]) = word_clean
        THEN [st EXCEPT !.stops_found = Append(@, word)]
        ELSE st

\* lines 298-328 over the words of a header line, left to right
RECURSIVE stop_words(_, _, _)
stop_words(above, st, words) ==
    IF Len(words) = 0 THEN st
    ELSE stop_word(above,
                   stop_words(above, st, SubSeq(words, 1, Len(words) - 1)),
                   words[Len(words)])

\* lines 286-334 for one header line: a line that is empty or a service label
\* is passed over
\* (the words drawn below hold no '.', no lower-case letter before a capital
\* and no two capitals before a lower-case letter, so lines 290-292 leave the
\* line as it is)
line_stops(above, line) ==
    IF line = BlankLine \/ upper_words_of(line) \in service_labels THEN above
    ELSE above \o flush_stop(above,
                             stop_words(above,
                                        [stops_found |-> <<>>, current_stop |-> <<>>],
                                        line.words)).stops_found

\* lines 277-282: the header lines the loop reaches from line first on: it
\* stops before the first line that ends the header and after last_line
header_end(raw_text, first, last_line) ==
    LET ending == {i \in first..last_line : ends_header(raw_text[i])}
    IN  IF ending = {} THEN last_line
        ELSE (CHOOSE i \in ending : \A j \in ending : i <= j) - 1

\* lines 277-334 over the header lines first..i, top to bottom
RECURSIVE header_stops(_, _, _)
header_stops(raw_text, first, i) ==
    IF i < first THEN <<>>
    ELSE line_stops(header_stops(raw_text, first, i - 1), raw_text[i])

Min(a, b) == IF a <= b THEN a ELSE b

\* lines 262-334
find_stops(raw_text) ==
    LET start == header_line(raw_text)
    IN  IF start = 0 THEN <<>>
        ELSE header_stops(raw_text, start + 1,
                          header_end(raw_text, start + 1,
                                     Min(start + 15, Len(raw_text))))

\* str.split() of a text without blanks at its ends
RECURSIVE split(_)
split(s) ==
    LET blanks == {i \in 1..Len(s) : s[i] = " "}
        first == CHOOSE i \in blanks : \A j \in blanks : i <= j
    IN  IF Len(s) = 0 THEN <<>>
        ELSE IF blanks = {} THEN <<s>>
        ELSE IF first = 1 THEN split(Tail(s))
        ELSE <<SubSeq(s, 1, first - 1)>> \o split(SubSeq(s, first + 1, Len(s)))

\* a word kept in the letter case the header has it in
capitalize_word_kept(word) == word

\* lines 374-384
capitalize_word(word) ==
    IF Upper(word) \in upper_words THEN Upper(word) ELSE capitalize(word)

\* line 387: re.sub(r'\b[A-Z]\s+', '', stop) on capitalised words: a word of
\* one capital letter goes, with the blank after it, unless it is the last
drop_single_letters(words) ==
    LET n == Len(words)
        keep == {i \in 1..n : ~(i < n /\ Len(words[i]) = 1 /\ words[i][1] \in Letters)}
        F[i \in 0..n] ==
            IF i = 0 THEN <<>>
            ELSE IF i \in keep THEN Append(F[i - 1], words[i]) ELSE F[i - 1]
    IN  F[n]

\* lines 349-388 for one stop
\* (none of the words drawn below is a key of known_stops_map or holds a text
\* the substitutions of lines 357-371 rewrite)
clean_stop(stop) ==
    LET words == split(stop)
        capitalized_words == [i \in 1..Len(words) |-> capitalize_word(words[i])]
    IN  join(drop_single_letters(capitalized_words))

\* lines 336-391: the cleaned stops in the order of stops_found; one is
\* appended when it has more than 2 characters and is not in cleaned_stops
\* yet, that is, when no stop before it cleans to the same text
clean_stops(stops_found) ==
    LET cleaned == [i \in 1..Len(stops_found) |-> clean_stop(stops_found[i])]
        appended(i) == /\ Len(cleaned[i]) > 2
                       /\ \A j \in 1..(i - 1) : cleaned[j] # cleaned[i]
        positions == SelectSeq([i \in 1..Len(stops_found) |-> i], appended)
    IN  [k \in 1..Len(positions) |-> cleaned[positions[k]]]

max_stops == 30

\* line 393: cleaned_stops[:30]
stops_of(raw_text) ==
    LET cleaned_stops == clean_stops(find_stops(raw_text))
    IN  SubSeq(cleaned_stops, 1, Min(max_stops, Len(cleaned_stops)))

\* lines 236-476, as far as stops, schedule_times and schedule_lines go
parse_route_details(route_data) ==
    LET pass == times_pass([schedule_times |-> <<>>, current_direction |-> NoDirection,
                            schedule_lines |-> <<>>],
                           route_data.raw_text)
    IN  [route_number |-> route_data.route_number,
         raw_text |-> route_data.raw_text,
         stops |-> stops_of(route_data.raw_text),
         schedule_times |-> pass.schedule_times,
         schedule_lines |-> schedule_lines_pass(pass.schedule_lines, route_data.raw_text)]

\* lines 181-234 on the lines of a text; locals is what the run started from
parse_schedule_text(locals, lines) ==
    LET found == segment(parse_start(locals), lines)
    IN  [schedules |-> [r \in 1..Len(found.schedules) |->
                            parse_route_details(found.schedules[r])],
         locals |-> found]

(* The texts _parse_schedule_text is run on *)

MaxTextLines == 3    \* lines of a drawn timetable text after its heading
MaxHeaderLines == 2  \* lines of a drawn stop header
MaxParses == 3       \* runs of _parse_schedule_text on the repeated texts
MaxSegmentLines == 4 \* lines of a drawn text of headings and rows

Parsers == {1, 2}

Heading30 == TextLine(<<WRoute, R30>>, <<>>)
Heading31 == TextLine(<<WRoute, R31>>, <<>>)
LeaveLine == TextLine(<<WLeave>>, <<>>)

Row1 == TextLine(<<Campus, WCenter>>, <<Tok(8, 0, "AM"), Tok(8, 15, "AM"), Tok(8, 30, "AM")>>)
Row2 == TextLine(<<WMain, WHall>>, <<Tok(9, 0, "AM"), Tok(9, 15, "AM"), Tok(9, 30, "AM")>>)
ShortRow == TextLine(<<WPark>>, <<Tok(10, 0, "AM"), Tok(10, 5, "AM")>>)
ToAmherstCenter == TextLine(<<WTo, WAmherst, WCenter>>, <<>>)
ToParkRow == TextLine(<<WTo, WPark>>, <<Tok(1, 0, "PM"), Tok(1, 20, "PM"), Tok(1, 40, "PM")>>)
LowerToLine == TextLine(<<WMain, <<"t", "o">>, WPark>>, <<>>)

TimesLines ==
    { Heading31, LeaveLine, Row1, Row2, ShortRow, ToAmherstCenter, ToParkRow,
      LowerToLine, BlankLine }

\* a heading for route 30, then up to MaxTextLines lines
TimesTexts ==
    { <<Heading30>> \o body :
        body \in UNION { [1..n -> TimesLines] : n \in 0..MaxTextLines } }

\* the two texts of a row and a direction line
RowThenDirection == <<Heading30, LeaveLine, Row1, ToAmherstCenter>>
DirectionThenRow == <<Heading30, LeaveLine, ToAmherstCenter, Row1>>

HeaderLines ==
    { TextLine(<<WMain, WHall>>, <<>>),
      TextLine(<<WMainLower, WHallLower, WOf, WMainUpper, WHall>>, <<>>),
      TextLine(<<WPark, WA, WMain>>, <<>>),
      TextLine(<<WAb, WPark, WOf, WHall, WAb>>, <<>>),
      TextLine(<<WUmass, WCenter, WOf, WAmherst>>, <<>>),
      TextLine(<<WTo, WPark>>, <<>>),
      Row1 }

\* a heading, the LEAVE line, then up to MaxHeaderLines header lines
StopTexts ==
    { <<Heading30, LeaveLine>> \o body :
        body \in UNION { [1..n -> HeaderLines] : n \in 1..MaxHeaderLines } }

\* a header of 12 lines: one naming a stop twice, in lower and in upper case,
\* then 11 naming three stops each, 33 different ones
StopWords == <<WMain, WHall, WPark, WCenter, Campus, Depot>>
ManyStopsLine(i) ==
    LET a == StopWords[((i - 1) % 6) + 1]
        b == StopWords[((i - 1) \div 6) + 1]
    IN  TextLine(<<a, b, WMain, WOf, a, b, WHall, WOf, a, b, WPark>>, <<>>)
ManyStopsText ==
    <<Heading30, LeaveLine,
      TextLine(<<WMainLower, WHallLower, WOf, WMainUpper, WHall>>, <<>>)>>
        \o [i \in 1..11 |-> ManyStopsLine(i)]

RepeatedTexts ==
    { RowThenDirection, DirectionThenRow,
      <<Heading30, Row1, Heading31, Row2>>,
      <<Row1, Heading31, LeaveLine, TextLine(<<WMain, WHall>>, <<>>)>> }

\* texts of up to MaxSegmentLines lines: headings of two routes, rows (one
\* with its markers written right after the minutes), and blank lines, in any
\* order
GluedRow == GluedLine(<<Depot>>, <<Tok(7, 0, "AM"), Tok(7, 20, "AM"), Tok(7, 40, "AM")>>)
SegmentLines == {Heading30, Heading31, Row1, ShortRow, GluedRow, BlankLine}
SegmentTexts == UNION { [1..n -> SegmentLines] : n \in 0..MaxSegmentLines }

\* the workloads: the texts the runs are drawn from and how many runs there are
Workloads ==
    { [texts |-> "times", max_calls |-> 1],
      [texts |-> "stops", max_calls |-> 1],
      [texts |-> "segments", max_calls |-> 1],
      [texts |-> "repeated", max_calls |-> MaxParses] }

TextsOf(workload) ==
    CASE workload.texts = "times" -> TimesTexts
      [] workload.texts = "stops" -> StopTexts \cup {ManyStopsText}
      [] workload.texts = "segments" -> SegmentTexts
      [] workload.texts = "repeated" -> RepeatedTexts

\* what a parser instance holds before its first run
NoLocals == [schedules |-> <<>>, current_route |-> NoRoute]

InitParse ==
    /\ pc = "idle"
    /\ inp \in Workloads
    /\ constructed = FALSE
    /\ pdf_urls = <<>>
    /\ hostUtcOffset = 0
    /\ now = 0
    /\ cache = [path \in {} |-> 0]
    /\ last = [op |-> "none"]
    /\ parses = [locals |-> [p \in Parsers |-> NoLocals], calls |-> <<>>]
    /\ memory = NoMemory
    /\ chat = NoChat

\* one run of _parse_schedule_text(text) on parser instance p
ParseScheduleText ==
    /\ Len(parses.calls) < inp.max_calls
    /\ \E p \in Parsers, text \in TextsOf(inp) :
         LET run == parse_schedule_text(parses.locals[p], text)
         IN  parses' = [locals |-> [parses.locals EXCEPT ![p] = run.locals],
                        calls |-> Append(parses.calls,
                                         [parser |-> p, text |-> text,
                                          schedules |-> run.schedules])]
    /\ UNCHANGED <<pc, inp, constructed, pdf_urls, hostUtcOffset, now, cache, last,
                   memory, chat>>

NextParse == ParseScheduleText

SpecParse == InitParse /\ [][NextParse]_vars

----------------------------------------------------------------------------
(* The conversation memory: backend/conversation_memory.py *)

\* memory.db is the conversations table, rows in the order of their
\* timestamps; memory.cache is the _cache dict, its entries in the order the
\* keys were inserted.

max_cache_size == 10
max_messages_per_session == 50

\* a session_id that is None or ''
NoSession == 0

Message(type, content) == [type |-> type, content |-> content]
known_types == {"human", "ai", "system", "tool"}

\* lines 138-177: the row save_message inserts
row_of(session_id, message) ==
    [session_id |-> session_id, message_type |-> message.type,
     content |-> message.content]

\* lines 93-109: the message a row is read back as
message_of(row) ==
    CASE row.message_type = "human" -> Message("human", row.content)
      [] row.message_type = "ai" -> Message("ai", row.content)
      [] row.message_type = "system" -> Message("system", row.content)
      [] row.message_type = "tool" -> Message("tool", row.content)

in_cache(_cache, session_id) ==
    \E e \in 1..Len(_cache) : _cache[e].session_id = session_id

cached(_cache, session_id) ==
    _cache[CHOOSE e \in 1..Len(_cache) : _cache[e].session_id = session_id].messages

\* messages[-n:]: for n = 0 the slice starts at index 0
last_slice(messages, n) ==
    IF n = 0 \/ n >= Len(messages) THEN messages
    ELSE SubSeq(messages, Len(messages) - n + 1, Len(messages))

\* lines 80-93: the newest max_messages rows of the session, oldest first
select_rows(db, session_id, max_messages) ==
    LET rows == SelectSeq(db, LAMBDA row : row.session_id = session_id)
        n == Len(rows)
        newest == IF max_messages >= n THEN rows
                  ELSE SubSeq(rows, n - max_messages + 1, n)
    IN  [k \in 1..Len(newest) |-> message_of(newest[k])]

without(_cache, session_id) ==
    SelectSeq(_cache, LAMBDA entry : entry.session_id # session_id)

\* line 114: min(self._cache.keys(), key=lambda k: len(self._cache[k])), the
\* first key among those with the fewest messages
oldest_key(_cache) ==
    LET least == {e \in 1..Len(_cache) :
                    \A f \in 1..Len(_cache) :
                        Len(_cache[e].messages) <= Len(_cache[f].messages)}
    IN  _cache[CHOOSE e \in least : \A f \in least : e <= f].session_id

\* lines 53-118
get_conversation_history(mem, session_id, max_messages) ==
    IF session_id = NoSession THEN [ret |-> <<>>, memory |-> mem]
    ELSE IF in_cache(mem.cache, session_id)
    THEN LET messages == cached(mem.cache, session_id)
         IN  [ret |-> IF Len(messages) > max_messages
                      THEN last_slice(messages, max_messages) ELSE messages,
              memory |-> mem]
    ELSE LET messages == select_rows(mem.db, session_id, max_messages)
             kept == IF Len(mem.cache) >= max_cache_size
                     THEN without(mem.cache, oldest_key(mem.cache))
                     ELSE mem.cache
         IN  [ret |-> messages,
              memory |-> [db |-> mem.db,
                          cache |-> Append(kept, [session_id |-> session_id,
                                                  messages |-> messages])]]

\* lines 120-189
save_message(mem, session_id, message) ==
    IF session_id = NoSession \/ message.type \notin known_types THEN mem
    ELSE LET entered == IF in_cache(mem.cache, session_id) THEN mem.cache
                        ELSE Append(mem.cache, [session_id |-> session_id,
                                                messages |-> <<>>])
             appended == Append(cached(entered, session_id), message)
             limited == IF Len(appended) > max_messages_per_session
                        THEN last_slice(appended, max_messages_per_session)
                        ELSE appended
         IN  [db |-> Append(mem.db, row_of(session_id, message)),
              cache |-> [e \in 1..Len(entered) |->
                            IF entered[e].session_id = session_id
                            THEN [session_id |-> session_id, messages |-> limited]
                            ELSE entered[e]]]

\* a clear_session that forgets the rows and leaves the cache entry in place
clear_session_rows_only(mem, session_id) ==
    IF session_id = NoSession THEN mem
    ELSE [db |-> SelectSeq(mem.db, LAMBDA row : row.session_id # session_id),
          cache |-> mem.cache]

\* lines 200-214
clear_session(mem, session_id) ==
    IF session_id = NoSession THEN mem
    ELSE [db |-> SelectSeq(mem.db, LAMBDA row : row.session_id # session_id),
          cache |-> without(mem.cache, session_id)]

(* The calls made on one ConversationMemory *)

MaxFewCalls == 4     \* calls of the workload with few sessions
MaxSessions == 12    \* session ids of the workload with many sessions
MaxManyCalls == 13   \* calls of the workload with many sessions

Human1 == Message("human", 1)
Ai2 == Message("ai", 2)

\* the workloads: any calls on two sessions and on no session, or messages
\* and lookups for one session after the other
MemoryWorkloads ==
    { [kind |-> "few", max_calls |-> MaxFewCalls],
      [kind |-> "many", max_calls |-> MaxManyCalls] }

\* the sessions the conversations table or the cache knows
SessionsUsed ==
    {memory.db[k].session_id : k \in 1..Len(memory.db)}
        \cup {memory.cache[e].session_id : e \in 1..Len(memory.cache)}

\* the workload with many sessions fills the cache with one session after
\* the other, and from then on also comes back to session 1
NextSession == {Cardinality(SessionsUsed) + 1} \cap (1..MaxSessions)
CacheFilled == Cardinality(SessionsUsed) >= max_cache_size

SaveSessions ==
    IF inp.kind = "few" THEN {NoSession, 1, 2}
    ELSE NextSession \cup (IF CacheFilled THEN {1} ELSE {})

GetSessions ==
    IF inp.kind = "few" THEN {NoSession, 1, 2}
    ELSE IF CacheFilled THEN NextSession \cup {1} ELSE {}

ClearSessions == IF inp.kind = "few" THEN {NoSession, 1, 2} ELSE {}

MessageChoices == IF inp.kind = "few" THEN {Human1, Ai2} ELSE {Human1}

\* max_messages: 20 is what the agent asks for (langgraph_agent.py line 328)
LimitChoices == IF inp.kind = "few" THEN {1, 20} ELSE {20}

\* the conversations table an earlier process may have left on disk
StoredBefore == { <<>>, <<row_of(1, Human1)>> }

InitMemory ==
    /\ pc = "idle"
    /\ inp \in MemoryWorkloads
    /\ constructed = FALSE
    /\ pdf_urls = <<>>
    /\ hostUtcOffset = 0
    /\ now = 0
    /\ cache = [path \in {} |-> 0]
    /\ last = [op |-> "none"]
    /\ parses = NoParses
    /\ \E db \in StoredBefore :
          /\ inp.kind = "many" => db = <<>>
          /\ memory = [db |-> db, cache |-> <<>>]
    /\ chat = NoChat

\* every call takes one tick of the clock
GetConversationHistory ==
    /\ now < inp.max_calls
    /\ \E session_id \in GetSessions, max_messages \in LimitChoices :
         LET r == get_conversation_history(memory, session_id, max_messages)
         IN  /\ memory' = r.memory
             /\ last' = [op |-> "get", session_id |-> session_id,
                         max_messages |-> max_messages, ret |-> r.ret,
                         pre |-> memory]
    /\ now' = now + 1
    /\ UNCHANGED <<pc, inp, constructed, pdf_urls, hostUtcOffset, cache, parses, chat>>

SaveMessage ==
    /\ now < inp.max_calls
    /\ \E session_id \in SaveSessions, message \in MessageChoices :
         /\ memory' = save_message(memory, session_id, message)
         /\ last' = [op |-> "save", session_id |-> session_id,
                     message |-> message, pre |-> memory]
    /\ now' = now + 1
    /\ UNCHANGED <<pc, inp, constructed, pdf_urls, hostUtcOffset, cache, parses, chat>>

ClearSession ==
    /\ now < inp.max_calls
    /\ \E session_id \in ClearSessions :
         /\ memory' = clear_session(memory, session_id)
         /\ last' = [op |-> "clear", session_id |-> session_id, pre |-> memory]
    /\ now' = now + 1
    /\ UNCHANGED <<pc, inp, constructed, pdf_urls, hostUtcOffset, cache, parses, chat>>

NextMemory == GetConversationHistory \/ SaveMessage \/ ClearSession

SpecMemory == InitMemory /\ [][NextMemory]_vars

----------------------------------------------------------------------------
(* The chat endpoint: backend/main.py, with SafetyChecker.check and the
   agent's use of the conversation memory *)

\* chat.logs is the logs table, chat.served the responses sent so far;
\* chat.safety_checks and chat.agent_calls count the calls of
\* safety_checker.check and of langgraph_agent.chat_with_tools.

\* str.lower()
lower(s) == [i \in 1..Len(s) |-> LowerChar(s[i])]

\* str.strip(): the blanks at both ends go
RECURSIVE strip_start(_)
strip_start(s) == IF Len(s) > 0 /\ s[1] = " " THEN strip_start(Tail(s)) ELSE s
strip(s) == strip_end(strip_start(s))

\* safety_checker.py lines 12-17, in the order of the dict
unsafe_categories == <<"self_harm", "harassment", "academic_dishonesty", "violence">>
unsafe_keywords(category) ==
    CASE category = "self_harm" ->
           { <<"s", "u", "i", "c", "i", "d", "e">>,
             <<"k", "i", "l", "l", " ", "m", "y", "s", "e", "l", "f">>,
             <<"e", "n", "d", " ", "m", "y", " ", "l", "i", "f", "e">>,
             <<"h", "u", "r", "t", " ", "m", "y", "s", "e", "l", "f">>,
             <<"s", "e", "l", "f", " ", "h", "a", "r", "m">> }
      [] category = "harassment" ->
           { <<"h", "a", "r", "a", "s", "s">>,
             <<"b", "u", "l", "l", "y">>,
             <<"t", "h", "r", "e", "a", "t", "e", "n">>,
             <<"i", "n", "t", "i", "m", "i", "d", "a", "t", "e">> }
      [] category = "academic_dishonesty" ->
           { <<"c", "h", "e", "a", "t">>,
             <<"p", "l", "a", "g", "i", "a", "r", "i", "z", "e">>,
             <<"c", "o", "p", "y", " ", "h", "o", "m", "e", "w", "o", "r", "k">>,
             <<"e", "x", "a", "m", " ", "a", "n", "s", "w", "e", "r", "s">> }
      [] category = "violence" ->
           { <<"h", "u", "r", "t", " ", "s", "o", "m", "e", "o", "n", "e">>,
             <<"a", "t", "t", "a", "c", "k">>,
             <<"v", "i", "o", "l", "e", "n", "c", "e">>,
             <<"w", "e", "a", "p", "o", "n">> }

\* safety_checker.py lines 93-98
unsafe_patterns ==
    { <<"h", "o", "w", " ", "t", "o", " ", "h", "a", "r", "m">>,
      <<"h", "o", "w", " ", "t", "o", " ", "h", "u", "r", "t">>,
      <<"w", "a", "y", "s", " ", "t", "o", " ", "c", "h", "e", "a", "t">>,
      <<"h", "o", "w", " ", "t", "o", " ", "g", "e", "t", " ", "a", "w", "a", "y", " ", "w", "i", "t", "h">> }

\* safety_checker.py lines 20-55 and 106-117: the reply texts, told apart by
\* the category they belong to
safe_response(category) == [text |-> "safe_responses", category |-> category]
default_safe_response == [text |-> "default_safe_response", category |-> "general"]

\* safety_checker.py lines 57-88
check(user_query) ==
    LET query_lower == lower(user_query)
        hit(c) == \E keyword \in unsafe_keywords(unsafe_categories[c]) :
                     IsSubstring(keyword, query_lower)
        hits == {c \in 1..Len(unsafe_categories) : hit(c)}
        first == CHOOSE c \in hits : \A d \in hits : c <= d
    IN  IF hits # {}
        THEN [is_unsafe |-> TRUE, category |-> unsafe_categories[first],
              response |-> safe_response(unsafe_categories[first])]
        ELSE IF \E pattern \in unsafe_patterns : IsSubstring(pattern, query_lower)
        THEN [is_unsafe |-> TRUE, category |-> "general",
              response |-> default_safe_response]
        ELSE [is_unsafe |-> FALSE, category |-> "none",
              response |-> [text |-> "", category |-> "none"]]

\* main.py lines 169-177
category_keywords(category) ==
    CASE category = "study_spots" ->
           { <<"s", "t", "u", "d", "y">>,
             <<"q", "u", "i", "e", "t">>,
             <<"s", "p", "o", "t">>,
             <<"s", "p", "a", "c", "e">> }
      [] category = "dining" ->
           { <<"f", "o", "o", "d">>,
             <<"d", "i", "n", "i", "n", "g">>,
             <<"e", "a", "t">>,
             <<"m", "e", "a", "l">> }
      [] category = "resources" ->
           { <<"h", "e", "l", "p">>,
             <<"s", "u", "p", "p", "o", "r", "t">>,
             <<"r", "e", "s", "o", "u", "r", "c", "e">>,
             <<"c", "o", "u", "n", "s", "e", "l", "i", "n", "g">> }
      [] category = "transport" ->
           { <<"b", "u", "s">>,
             <<"p", "v", "t", "a">>,
             <<"t", "r", "a", "n", "s", "p", "o", "r", "t">> }

category_of(user_message) ==
    LET has(category) == \E keyword \in category_keywords(category) :
                            IsSubstring(keyword, lower(user_message))
    IN  CASE has("study_spots") -> "study_spots"
          [] has("dining") -> "dining"
          [] has("resources") -> "resources"
          [] has("transport") -> "transport"
          [] OTHER -> "general"

\* main.py lines 71-80: the row log_query inserts
log_row(user_query, category, is_flagged, response) ==
    [user_query |-> user_query, category |-> category,
     is_flagged |-> IF is_flagged THEN 1 ELSE 0, response |-> response]

Served(status, reply) == [status |-> status, reply |-> reply]

\* the reply of the model to a message, and the texts of the failures
AgentReply == [text |-> "reply", category |-> "agent"]
ErrorDetail(kind) == [text |-> kind, category |-> "error"]

\* main.py line 159: f"session_{datetime.now().timestamp()}"
generated_session(t) == 100 + t

\* langgraph_agent.py lines 300-392, as far as the conversation memory goes;
\* outcome is what the call of the graph does: "reply", "value_error" (one of
\* the failures lines 351-370 turn into ValueError) or "error"
\* (a history of human and ai messages is left as it is by lines 174-235)
chat_with_tools(mem, user_message, session_id, outcome) ==
    LET read == IF session_id # NoSession
                THEN get_conversation_history(mem, session_id, 20)
                ELSE [ret |-> <<>>, memory |-> mem]
        conversation_history == read.ret
        messages == conversation_history
                        \o <<Message("human", user_message), Message("ai", AgentReply)>>
        new_messages == IF Len(conversation_history) > 0
                        THEN SubSeq(messages, Len(conversation_history) + 1, Len(messages))
                        ELSE messages
        human_saved == save_message(read.memory, session_id,
                                    Message("human", user_message))
        saved[k \in 0..Len(new_messages)] ==
            IF k = 0 THEN human_saved
            ELSE IF new_messages[k].type # "system"
            THEN save_message(saved[k - 1], session_id, new_messages[k])
            ELSE saved[k - 1]
    IN  IF outcome # "reply"
        THEN [raised |-> outcome, reply |-> ErrorDetail(outcome), memory |-> read.memory]
        ELSE [raised |-> "none", reply |-> AgentReply,
              memory |-> IF session_id # NoSession THEN saved[Len(new_messages)]
                         ELSE read.memory]

\* main.py lines 153-209: the message goes to the agent
answer_agent(mem, ch, request, user_message) ==
    LET session_id == IF request.session_id # NoSession THEN request.session_id
                      ELSE generated_session(request.at)
        response == chat_with_tools(mem, user_message, session_id, request.outcome)
        called == [ch EXCEPT !.agent_calls = @ + 1]
    IN  IF response.raised = "none"
        THEN [memory |-> response.memory,
              chat |-> [called EXCEPT
                          !.logs = Append(@, log_row(user_message, category_of(user_message),
                                                   FALSE, response.reply)),
                          !.served = Append(@, Served(200, response.reply))]]
        ELSE [memory |-> response.memory,
              chat |-> [called EXCEPT
                          !.logs = Append(@, log_row(user_message, "error", FALSE,
                                                   response.reply)),
                          !.served = Append(@, Served(500, response.reply))]]

\* a gate that lets the agent run before it answers with the safety response
answer_unsafe_after_agent(mem, ch, request, user_message, safety_result) ==
    LET ran == answer_agent(mem, ch, request, user_message)
    IN  [memory |-> ran.memory,
         chat |-> [ran.chat EXCEPT
                     !.logs = Append(ch.logs, log_row(user_message, "unsafe", TRUE,
                                                      safety_result.response)),
                     !.served = Append(ch.served, Served(200, safety_result.response))]]

\* main.py lines 141-151: the message is flagged
answer_unsafe(mem, ch, request, user_message, safety_result) ==
    [memory |-> mem,
     chat |-> [ch EXCEPT
                 !.logs = Append(@, log_row(user_message, "unsafe", TRUE,
                                            safety_result.response)),
                 !.served = Append(@, Served(200, safety_result.response))]]

EmptyDetail == [text |-> "Message cannot be empty", category |-> "error"]

\* main.py lines 128-209: POST /api/chat
handle_chat(mem, ch, request) ==
    LET user_message == strip(request.message)
        safety_result == check(user_message)
        checked == [ch EXCEPT !.safety_checks = @ + 1]
    IN  IF Len(user_message) = 0
        THEN [memory |-> mem,
              chat |-> [ch EXCEPT !.served = Append(@, Served(400, EmptyDetail))]]
        ELSE IF safety_result.is_unsafe
        THEN answer_unsafe(mem, checked, request, user_message, safety_result)
        ELSE answer_agent(mem, checked, request, user_message)

(* The requests sent to the chat endpoint *)

MaxChats == 3    \* requests served

EmptyMessage == <<>>
BlankMessage == <<" ", " ">>
CheatMessage == <<" ", "C", "h", "e", "a", "t", " ", "s", "h", "e", "e", "t", " ">>
HurtMessage == <<"h", "o", "w", " ", "t", "o", " ", "h", "u", "r", "t">>
BusMessage == <<"b", "u", "s", " ", "3", "0", " ">>
HelloMessage == <<"h", "i">>

ChatMessages ==
    {EmptyMessage, BlankMessage, CheatMessage, HurtMessage, BusMessage, HelloMessage}

\* session_id of the request: none, or session 1
ChatSessions == {NoSession, 1}

Outcomes == {"reply", "value_error", "error"}

InitChat ==
    /\ pc = "idle"
    /\ inp = [kind |-> "chat", max_calls |-> MaxChats]
    /\ constructed = FALSE
    /\ pdf_urls = <<>>
    /\ hostUtcOffset = 0
    /\ now = 0
    /\ cache = [path \in {} |-> 0]
    /\ last = [op |-> "none"]
    /\ parses = NoParses
    /\ memory = NoMemory
    /\ chat = NoChat

\* one request to POST /api/chat, from its arrival to its response
Chat ==
    /\ now < inp.max_calls
    /\ \E message \in ChatMessages, session_id \in ChatSessions, outcome \in Outcomes :
         LET request == [message |-> message, session_id |-> session_id,
                         outcome |-> outcome, at |-> now]
             r == handle_chat(memory, chat, request)
         IN  /\ memory' = r.memory
             /\ chat' = r.chat
             /\ last' = [op |-> "chat", request |-> request]
    /\ now' = now + 1
    /\ UNCHANGED <<pc, inp, constructed, pdf_urls, hostUtcOffset, cache, parses>>

NextChat == Chat

SpecChat == InitChat /\ [][NextChat]_vars

----------------------------------------------------------------------------
(* The cache files of different route_number arguments *)

\* route_number arguments: none, the word of the generic file name, and
\* numbers that differ only in a slash, a backslash or an underscore
PathRoutes ==
    { NoRoute, TxtParsed, R30, <<"3", "/", "0">>, <<"3", "\\", "0">>, <<"3", "_", "0">> }

\* the cache files these arguments lead to
CachePaths == { get_cache_path(r) : r \in PathRoutes }

\* a parser with the _default URL configured and an empty cache_dir
InitPaths ==
    /\ pc = "idle"
    /\ inp = NoInput
    /\ constructed = TRUE
    /\ pdf_urls = [kind |-> "dict", items |-> <<Item(KeyDefault, UAll)>>]
    /\ hostUtcOffset = EST_UTC_OFFSET
    /\ now = 0
    /\ cache = [p \in CachePaths |-> NoFile]
    /\ last = NoCall
    /\ parses = NoParses
    /\ memory = NoMemory
    /\ chat = NoChat

\* a caller invokes parse_pdf(route_number, use_cache) with one of PathRoutes
ParsePdfPath ==
    /\ pc = "idle"
    /\ \E route_number \in PathRoutes, use_cache \in BOOLEAN, env \in Envs :
        LET r == parse_pdf(cache, route_number, use_cache, env)
        IN  /\ cache' = r.cache
            /\ last' = [NoCall EXCEPT !.op = "parse_pdf",
                            !.route_number = route_number,
                            !.use_cache = use_cache,
                            !.pre = cache[get_cache_path(route_number)],
                            !.raised = r.raised, !.ret = r.ret,
                            !.url = r.url, !.dl = r.dl,
                            !.extracted = (r.dl = "ok" /\ env.ex),
                            !.written = (r.dl = "ok" /\ env.ex /\ env.wr = "ok"),
                            !.downloads = r.downloads, !.loads = r.loads]
    /\ pc' = "returned"
    /\ UNCHANGED <<parses, memory, chat, inp, constructed, pdf_urls, hostUtcOffset, now>>

NextPaths == ParsePdfPath \/ Return

SpecPaths == InitPaths /\ [][NextPaths]_vars

----------------------------------------------------------------------------
(* Concurrent parse_pdf calls for one route: the cache file under writes that
   are not atomic *)

NumThreads == 3     \* concurrent parse_pdf(route_number, use_cache=True) calls
Threads == 1..NumThreads

\* the documents a download may yield, and the number of buffer-fulls json.dump
\* writes for the ParseResult of each (they differ in length)
RaceDocs == {1, 2}
ChunksOf(doc) == doc + 1

\* the k-th buffer-full of the ParseResult of a document; Hole is the run of
\* NUL bytes a write past the end of a truncated file leaves before it
Chunk(doc, k) == [doc |-> doc, k |-> k]
Hole == Chunk(0, 0)

\* the cache file holding the complete ParseResult of a document
DocFile(doc) == [k \in 1..ChunksOf(doc) |-> Chunk(doc, k)]

\* files json.load is sure to refuse: an empty one, one with NUL bytes, a
\* proper beginning of one ParseResult, a ParseResult followed by more text
refused(chunks) ==
    \/ chunks = <<>>
    \/ \E i \in 1..Len(chunks) : chunks[i] = Hole
    \/ \E doc \in RaceDocs :
         \/ Len(chunks) < ChunksOf(doc) /\ chunks = SubSeq(DocFile(doc), 1, Len(chunks))
         \/ Len(chunks) > ChunksOf(doc) /\ SubSeq(chunks, 1, ChunksOf(doc)) = DocFile(doc)

Miss == [hasData |-> FALSE, complete |-> FALSE, doc |-> 0]
Complete(doc) == [hasData |-> TRUE, complete |-> TRUE, doc |-> doc]
Spliced == [hasData |-> TRUE, complete |-> FALSE, doc |-> 0]

\* _load_cache (lines 110-118) on the file as it is at this instant: the
\* outcomes json.load can have. A file spliced from the writes of two calls
\* may or may not be well-formed JSON.
load_cache_now(file) ==
    IF ~file.exists THEN {Miss}
    ELSE IF \E doc \in RaceDocs : file.chunks = DocFile(doc)
    THEN {Complete(file.chunks[1].doc)}
    ELSE IF refused(file.chunks) THEN {Miss}
    ELSE {Miss, Spliced}

\* one write() of a buffer-full at the writer's own offset
write_chunk(chunks, pos, c) ==
    IF pos <= Len(chunks) THEN [chunks EXCEPT ![pos] = c]
    ELSE chunks \o [i \in 1..(pos - 1 - Len(chunks)) |-> Hole] \o <<c>>

Waiting == [at |-> "idle", doc |-> 0, written |-> 0, ret |-> Miss, error |-> "none"]

InitRace ==
    /\ pc = [t \in Threads |-> Waiting]
    /\ cache = [exists |-> FALSE, chunks |-> <<>>]
    /\ inp = NoInput
    /\ constructed = TRUE
    /\ pdf_urls = [kind |-> "dict", items |-> <<Item(R30, U30)>>]
    /\ hostUtcOffset = EST_UTC_OFFSET
    /\ now = 0
    /\ last = NoCall
    /\ parses = NoParses
    /\ memory = NoMemory
    /\ chat = NoChat

RaceUnchanged ==
    UNCHANGED <<inp, constructed, pdf_urls, hostUtcOffset, now, last, parses, memory, chat>>

\* lines 503-510: the call tries the cache first
RaceLoad(t) ==
    /\ pc[t].at = "idle"
    /\ \E out \in load_cache_now(cache) :
         pc' = [pc EXCEPT ![t] = IF out.hasData
                                 THEN [@ EXCEPT !.at = "done", !.ret = out]
                                 ELSE [@ EXCEPT !.at = "miss"]]
    /\ UNCHANGED cache
    /\ RaceUnchanged

\* lines 513-537: download (doc = 0: it fails, and the cache file is tried
\* again) and text extraction
RaceDownload(t) ==
    /\ pc[t].at = "miss"
    /\ \E doc \in {0} \cup RaceDocs, ex \in BOOLEAN :
         IF doc = 0
         THEN \E out \in load_cache_now(cache) :
                pc' = [pc EXCEPT ![t] = IF out.hasData
                                        THEN [@ EXCEPT !.at = "done", !.ret = out]
                                        ELSE [@ EXCEPT !.at = "done", !.error = "download"]]
         ELSE pc' = [pc EXCEPT ![t] = IF ex THEN [@ EXCEPT !.at = "fetched", !.doc = doc]
                                       ELSE [@ EXCEPT !.at = "done", !.error = "extract"]]
    /\ UNCHANGED cache
    /\ RaceUnchanged

\* line 123: open(cache_path, 'w') truncates the file
RaceOpen(t) ==
    /\ pc[t].at = "fetched"
    /\ cache' = [exists |-> TRUE, chunks |-> <<>>]
    /\ pc' = [pc EXCEPT ![t] = [@ EXCEPT !.at = "writing", !.written = 0]]
    /\ RaceUnchanged

\* line 124: json.dump hands the text over a buffer-full at a time; after the
\* last one the file is closed and the call returns its result (line 557)
RaceWrite(t) ==
    /\ pc[t].at = "writing"
    /\ LET k == pc[t].written + 1
       IN  /\ cache' = [cache EXCEPT !.chunks = write_chunk(@, k, Chunk(pc[t].doc, k))]
           /\ pc' = [pc EXCEPT ![t] =
                        IF k = ChunksOf(pc[t].doc)
                        THEN [@ EXCEPT !.at = "done", !.written = k,
                                       !.ret = Complete(pc[t].doc)]
                        ELSE [@ EXCEPT !.written = k]]
    /\ RaceUnchanged

NextRace ==
    \E t \in Threads : RaceLoad(t) \/ RaceDownload(t) \/ RaceOpen(t) \/ RaceWrite(t)

SpecRace == InitRace /\ [][NextRace]_vars

----------------------------------------------------------------------------
(* The history handed to the model: backend/langgraph_agent.py, lines 174-235 *)

\* a message of a stored history: its class, the number of its tool_calls
\* (AIMessage only) and its content
HistoryMessage(type, tool_calls, content) ==
    [type |-> type, tool_calls |-> tool_calls, content |-> content]

\* the search that looks at the message right before only
found_predecessor_adjacent(cleaned, j) ==
    j > 0 /\ cleaned[j].type = "ai" /\ cleaned[j].tool_calls > 0

\* lines 190-226: going back from cleaned[j], is the first message that is not
\* a ToolMessage an AIMessage with tool_calls? (lines 198-219 compare the
\* tool_call_id and accept the message whether or not an id matches)
RECURSIVE found_valid_predecessor(_, _)
found_valid_predecessor(cleaned, j) ==
    IF j = 0 THEN FALSE
    ELSE IF cleaned[j].type = "ai" THEN cleaned[j].tool_calls > 0
    ELSE IF cleaned[j].type \in {"human", "system"} THEN FALSE
    ELSE found_valid_predecessor(cleaned, j - 1)

\* lines 185-233 from message i on, cleaned holding what was kept so far
RECURSIVE clean_from(_, _, _)
clean_from(messages, i, cleaned) ==
    IF i > Len(messages) THEN cleaned
    ELSE IF messages[i].type = "tool" /\ ~found_valid_predecessor(cleaned, Len(cleaned))
    THEN clean_from(messages, i + 1, cleaned)
    ELSE clean_from(messages, i + 1, Append(cleaned, messages[i]))

\* _clean_conversation_history(messages)
clean_conversation_history(messages) ==
    IF Len(messages) = 0 THEN <<>> ELSE clean_from(messages, 1, <<>>)

MaxHistory == 5     \* messages of a drawn history

\* the classes of message a history is drawn from: an AIMessage comes with
\* and without tool_calls
MessageKinds ==
    { [type |-> "human", tool_calls |-> 0], [type |-> "system", tool_calls |-> 0],
      [type |-> "ai", tool_calls |-> 0], [type |-> "ai", tool_calls |-> 1],
      [type |-> "tool", tool_calls |-> 0] }

\* histories of up to MaxHistory messages; the content of a message is its
\* place in the history
Histories(n) ==
    { [i \in 1..n |-> HistoryMessage(kinds[i].type, kinds[i].tool_calls, i)] :
        kinds \in [1..n -> MessageKinds] }

InitClean ==
    /\ pc = "idle"
    /\ inp \in UNION { { [messages |-> h] : h \in Histories(n) } : n \in 0..MaxHistory }
    /\ constructed = FALSE
    /\ pdf_urls = <<>>
    /\ hostUtcOffset = 0
    /\ now = 0
    /\ cache = [path \in {} |-> 0]
    /\ last = [op |-> "none"]
    /\ parses = NoParses
    /\ memory = NoMemory
    /\ chat = NoChat

\* one run of _clean_conversation_history on the drawn history
CleanConversationHistory ==
    /\ pc = "idle"
    /\ last' = [op |-> "clean", ret |-> clean_conversation_history(inp.messages)]
    /\ pc' = "returned"
    /\ UNCHANGED <<inp, constructed, pdf_urls, hostUtcOffset, now, cache, parses,
                   memory, chat>>

NextClean == CleanConversationHistory

SpecClean == InitClean /\ [][NextClean]_vars

----------------------------------------------------------------------------
(* Old rows and the cache: backend/conversation_memory.py, lines 216-224 *)

\* The rows of this part carry the timestamp column (line 169); a message is
\* saved with the tick of its save as content, so that a message read back
\* tells when it was saved.

\* lines 169-177: the row save_message inserts at tick timestamp
stamped(row, timestamp) ==
    [session_id |-> row.session_id, message_type |-> row.message_type,
     content |-> row.content, timestamp |-> timestamp]

\* save_message at tick timestamp
save_message_at(mem, session_id, message, timestamp) ==
    LET saved == save_message(mem, session_id, message)
    IN  IF Len(saved.db) = Len(mem.db) THEN saved
        ELSE [db |-> [k \in 1..Len(saved.db) |->
                        IF k = Len(saved.db) THEN stamped(saved.db[k], timestamp)
                        ELSE saved.db[k]],
              cache |-> saved.cache]

\* lines 216-224: the rows older than cutoff_date are deleted; _cache is not
\* touched
cleanup_old_sessions(mem, cutoff_date) ==
    [db |-> SelectSeq(mem.db, LAMBDA row : ~(row.timestamp < cutoff_date)),
     cache |-> mem.cache]

MaxCleanupCalls == 5     \* calls on the ConversationMemory
MaxDays == 2             \* the days argument, a day being one tick

CleanupSessions == {1, 2}

InitCleanup ==
    /\ pc = "idle"
    /\ inp = [max_calls |-> MaxCleanupCalls]
    /\ constructed = FALSE
    /\ pdf_urls = <<>>
    /\ hostUtcOffset = 0
    /\ now = 1
    /\ cache = [path \in {} |-> 0]
    /\ last = [op |-> "none", cutoff |-> 0]
    /\ parses = NoParses
    /\ memory = NoMemory
    /\ chat = NoChat

CleanupUnchanged ==
    UNCHANGED <<pc, inp, constructed, pdf_urls, hostUtcOffset, cache, parses, chat>>

\* last.cutoff is the latest cutoff of a cleanup_old_sessions so far, 0 before
\* the first
SaveMessageAt ==
    /\ now <= inp.max_calls
    /\ \E session_id \in CleanupSessions, type \in {"human", "ai"} :
         /\ memory' = save_message_at(memory, session_id, Message(type, now), now)
         /\ last' = [op |-> "save", session_id |-> session_id, cutoff |-> last.cutoff]
    /\ now' = now + 1
    /\ CleanupUnchanged

GetHistoryAfter ==
    /\ now <= inp.max_calls
    /\ \E session_id \in CleanupSessions :
         LET r == get_conversation_history(memory, session_id, 20)
         IN  /\ memory' = r.memory
             /\ last' = [op |-> "get", session_id |-> session_id, ret |-> r.ret,
                         cutoff |-> last.cutoff]
    /\ now' = now + 1
    /\ CleanupUnchanged

CleanupOldSessions ==
    /\ now <= inp.max_calls
    /\ \E days \in 0..MaxDays :
         LET cutoff_date == now - days
         IN  /\ memory' = cleanup_old_sessions(memory, cutoff_date)
             /\ last' = [op |-> "cleanup", days |-> days,
                         cutoff |-> IF cutoff_date > last.cutoff THEN cutoff_date
                                    ELSE last.cutoff]
    /\ now' = now + 1
    /\ CleanupUnchanged

NextCleanup == SaveMessageAt \/ GetHistoryAfter \/ CleanupOldSessions

SpecCleanup == InitCleanup /\ [][NextCleanup]_vars

----------------------------------------------------------------------------
(* Properties *)

Returned(op) == pc = "returned" /\ last.op = op

\* the age of a cache file: the time since it was written
FileAge(file) == now - file.mtime

\* C1: whenever the download of parse_pdf fails and a (readable) cache file
\* exists for the requested route, the cached ParseResult is returned, also when
\* the file is 24 hours old or older; an error is returned only when there is
\* no such file.
C1_StaleFallback ==
    (Returned("parse_pdf") /\ last.dl = "failed")
        => /\ (last.pre.exists /\ last.pre.ok) => last.ret = Ok(last.pre.data)
           /\ last.ret.error # "none" => ~(last.pre.exists /\ last.pre.ok)

\* C2: with use_cache = True and a URL configured, parse_pdf returns the content
\* of the route's cache file without a download whenever the file exists (and
\* holds a ParseResult) and its age is strictly under 24 hours; when the age is
\* 24 hours or more, or the file is absent, a download is attempted.
C2_CacheFreshness ==
    (Returned("parse_pdf") /\ last.use_cache /\ ~last.raised /\ last.ret.error # "config")
        => /\ (last.pre.exists /\ last.pre.ok /\ FileAge(last.pre) < max_age_hours)
                => (last.downloads = 0 /\ last.ret = Ok(last.pre.data))
           /\ (~last.pre.exists \/ FileAge(last.pre) >= max_age_hours)
                => last.downloads >= 1

\* the AM/PM table as the specification words it: 12 AM is hour 0, 12 PM stays
\* 12, any other PM hour is h + 12, any other AM hour stays h
TableHour(tok) ==
    CASE tok.h = 12 /\ tok.ap \in {"AM", "am"} -> 0
      [] tok.h = 12 /\ tok.ap \in {"PM", "pm"} -> 12
      [] tok.ap \in {"PM", "pm"} -> tok.h + 12
      [] OTHER -> tok.h

WellFormed(tok) == TableHour(tok) \in 0..23 /\ tok.m \in 0..59

\* the departure tokens of the lines a call scanned
ScannedToks ==
    UNION { UNION { { text_to_parse(last.routes[r], last.stop)[l].toks[k] :
                        k \in 1..Len(text_to_parse(last.routes[r], last.stop)[l].toks) } :
                    l \in 1..Len(text_to_parse(last.routes[r], last.stop)) } :
            r \in 1..Len(last.routes) }

\* the timestamp of a token on the date of the query
OnQueryDate(tok) == (last.current_time \div Day) * Day + At(TableHour(tok), tok.m)

Members(seq) == {seq[i] : i \in 1..Len(seq)}

\* C3: every departure token whose timestamp on the query date is strictly
\* earlier than now is moved to the next calendar day, not discarded: its
\* timestamp of the next day is among the collected times (and among the
\* returned ones unless the 10 returned are all earlier), the one of the query
\* date is not.
C3_Rollover ==
    Returned("query_engine") =>
        \A tok \in ScannedToks :
            (WellFormed(tok) /\ OnQueryDate(tok) < last.current_time)
                => /\ OnQueryDate(tok) + Day \in last.times.all_times
                   /\ OnQueryDate(tok) \notin last.times.all_times
                   /\ \/ OnQueryDate(tok) + Day \in Members(last.times.future_times)
                      \/ /\ Len(last.times.future_times) = next_limit
                         /\ \A t \in Members(last.times.future_times) :
                                t < OnQueryDate(tok) + Day

\* C3 witness: now = 23:50 and the token 00:10 AM give the timestamp 00:10 of
\* the next day
C3_Witness ==
    /\ Returned("query_engine")
    /\ last.current_time = At(23, 50)
    /\ Tok(0, 10, "AM") \in ScannedToks
    /\ last.times.future_times = <<Day + At(0, 10)>>

\* the query of the scenario: route 30 with departures 14:00, 16:30, 18:00
\* asked at 16:00
AfternoonQuery ==
    /\ Returned("query_engine")
    /\ last.routes = Summaries(<<AfternoonRow>>)
    /\ last.stop = NoRoute
    /\ last.current_time = At(16, 0)

T12(h, m, ap) == [h |-> h, m |-> m, ap |-> ap]

\* C4 as stated: the query at 16:00 over departures 14:00, 16:30, 18:00 returns
\* exactly 04:30 PM and 06:00 PM, the 14:00 departure being left out.
C4_Original ==
    AfternoonQuery => last.times.next_times = <<T12(4, 30, "PM"), T12(6, 0, "PM")>>

\* C4 as amended: the query returns 04:30 PM, 06:00 PM and then 02:00 PM: the
\* 14:00 departure, already past, is kept as the departure of the next day and
\* so comes last.
C4_Amended ==
    AfternoonQuery =>
        /\ last.times.next_times = <<T12(4, 30, "PM"), T12(6, 0, "PM"), T12(2, 0, "PM")>>
        /\ last.times.future_times = <<At(16, 30), At(18, 0), Day + At(14, 0)>>

C4_Witness == AfternoonQuery /\ Len(last.times.next_times) = 3

\* the hour on the 24-hour clock of a formatted 12-hour time
Hour24Of(t) ==
    IF t.ap = "AM" THEN (IF t.h = 12 THEN 0 ELSE t.h)
    ELSE (IF t.h = 12 THEN 12 ELSE t.h + 12)

\* C5: the returned timestamps are all strictly after now, strictly ascending
\* (so without duplicates) and at most 10; next_times and next_times_24h have
\* their length and describe the same timestamps position by position.
C5_ResultShape ==
    Returned("query_engine") =>
        LET ft == last.times.future_times
            nt == last.times.next_times
            n24 == last.times.next_times_24h
        IN  /\ \A i \in 1..Len(ft) : ft[i] > last.current_time
            /\ \A i \in 1..Len(ft) : \A j \in 1..Len(ft) : i < j => ft[i] < ft[j]
            /\ Len(ft) <= 10
            /\ Len(nt) = Len(ft) /\ Len(n24) = Len(ft)
            /\ \A i \in 1..Len(ft) :
                /\ Hour24Of(nt[i]) = n24[i].h
                /\ nt[i].m = n24[i].m
                /\ (n24[i].h * 60 + n24[i].m) * 2 = ft[i] % Day

\* C5 witness: more than 10 distinct coming departures, 10 returned
C5_Witness ==
    /\ Returned("query_engine")
    /\ Cardinality({t \in last.times.all_times : t > last.current_time}) > 10
    /\ Len(last.times.next_times) = 10

\* C6: each token is converted by the AM/PM table; a token whose converted hour
\* is outside 0..23 or whose minute is outside 0..59 is skipped, and the times
\* collected are exactly those of the other tokens.
C6_AmPmConversion ==
    Returned("query_engine") =>
        last.times.all_times =
            { IF OnQueryDate(tok) < last.current_time
              THEN OnQueryDate(tok) + Day ELSE OnQueryDate(tok) :
                tok \in {t \in ScannedToks : WellFormed(t)} }

\* C6 witness: a line with 12:10 AM and the malformed 13:00 PM gives the single
\* time 00:10
C6_Witness ==
    /\ Returned("query_engine")
    /\ ScannedToks = {Tok(12, 10, "AM"), Tok(13, 0, "PM")}
    /\ last.current_time = At(16, 0)
    /\ last.times.all_times = {Day + At(0, 10)}

\* a is a contiguous part of b
Contains(a, b) ==
    \E i \in 1..(Len(b) + 1) : \E j \in 0..Len(b) : SubSeq(b, i, j) = a

\* the matching rule as the specification words it
SpecMatch(q, k) == Contains(Upper(q), Upper(k)) \/ Contains(Upper(k), Upper(q))

\* C7: when get_next_bus_times obtained its ParseResult without error and no
\* parsed route of it matches route_number, the call returns the error
\* "No route found matching '<route_number>'" with next_times empty, and does
\* not raise.
C7_NoRouteFound ==
    ( /\ Returned("get_next_bus_times")
      /\ last.first.error = "none"
      /\ \A i \in 1..Len(DocSchedules(last.first.data.doc)) :
            ~SpecMatch(last.route_number,
                       DocSchedules(last.first.data.doc)[i].route_number) )
        => /\ ~last.raised
           /\ last.ret = Err("no_route", last.route_number)
           /\ last.times = NoTimes

\* C8: find_route(route_number = q) returns the parsed route with key k exactly
\* when upper(q) is part of upper(k) or upper(k) is part of upper(q).
C8_RouteMatching ==
    (Returned("find_route") /\ ~last.raised /\ last.parsed.error = "none") =>
        LET schedules == DocSchedules(last.parsed.data.doc)
        IN  \A i \in 1..Len(schedules) :
                (\E j \in 1..Len(last.routes) :
                    last.routes[j].route_number = schedules[i].route_number)
                <=> SpecMatch(last.route_number, schedules[i].route_number)

\* C8 witness: the query "30" returns route 30 and route B30
C8_Witness ==
    /\ Returned("find_route")
    /\ last.route_number = R30
    /\ \E i \in 1..Len(last.routes) : last.routes[i].route_number = R30
    /\ \E i \in 1..Len(last.routes) : last.routes[i].route_number = RB30

\* the source URL as the specification words it
SpecUrl(route_number) ==
    LET items == pdf_urls.items
        at(k) == items[CHOOSE i \in 1..Len(items) : items[i].key = k].url
    IN  CASE route_number # NoRoute /\ (\E i \in 1..Len(items) : items[i].key = route_number)
                -> at(route_number)
          [] OTHER ->
                IF \E i \in 1..Len(items) : items[i].key = KeyDefault
                THEN at(KeyDefault)
                ELSE IF items # <<>> THEN Head(items).url ELSE NoUrl

\* C9: with pdf_urls a mapping, the URL parse_pdf uses is the route's own URL
\* when route_number is a configured key, else the _default URL, else the first
\* configured URL; with no URL the call returns the configuration error without
\* reading the cache or downloading, whatever the cache holds.
C9_SourceResolution ==
    (Returned("parse_pdf") /\ pdf_urls.kind = "dict") =>
        /\ last.url = SpecUrl(last.route_number)
        /\ (last.dl = "ok" /\ last.ret.error = "none")
                => last.ret.data.source_url = SpecUrl(last.route_number)
        /\ last.downloads > 0 => SpecUrl(last.route_number) # NoUrl
        /\ SpecUrl(last.route_number) = NoUrl
                => /\ last.ret = Err("config", NoRoute)
                   /\ last.loads = 0 /\ last.downloads = 0
                   /\ cache[get_cache_path(last.route_number)] = last.pre

\* C9 witness: no URL configured, a fresh cache file present, the call answers
\* with the configuration error
C9_Witness ==
    /\ Returned("parse_pdf")
    /\ pdf_urls = [kind |-> "dict", items |-> <<>>]
    /\ last.use_cache
    /\ last.pre.exists /\ last.pre.ok /\ FileAge(last.pre) < max_age_hours
    /\ last.ret.error = "config"

\* C10: no call of the public API ends by raising.
C10_NoException == constructed => ~last.raised

\* the route identifier an error message carries: route_number or 'default'
RouteLabel(route_number) == IF route_number # NoRoute THEN route_number ELSE TxtDefault

\* C11: a parse_pdf call whose download fails while no cache file exists for
\* the route returns the error that names the route identifier ('default' when
\* no route_number was given), and leaves every cache file as it was: none is
\* created, none is modified.
C11_DownloadError ==
    [][ ( /\ pc = "idle" /\ pc' = "returned"
          /\ last'.op = "parse_pdf" /\ last'.dl = "failed"
          /\ ~cache[get_cache_path(last'.route_number)].exists )
        => /\ ~last'.raised
           /\ last'.ret = Err("download", RouteLabel(last'.route_number))
           /\ cache' = cache ]_vars

\* C11 witness: the download failed for route 30, which has no cache file; the
\* error names route 30 and there is still no file
C11_Witness ==
    /\ Returned("parse_pdf")
    /\ last.route_number = R30
    /\ last.dl = "failed"
    /\ ~last.pre.exists
    /\ last.ret = Err("download", R30)
    /\ ~cache[get_cache_path(R30)].exists

\* C12: a parse_pdf call whose download succeeds and whose text extraction
\* fails returns the extraction error, whatever cache file exists (no
\* fallback), and leaves every cache file as it was.
C12_ExtractionError ==
    [][ ( /\ pc = "idle" /\ pc' = "returned"
          /\ last'.op = "parse_pdf" /\ last'.dl = "ok"
          /\ ~last'.extracted )
        => /\ ~last'.raised
           /\ last'.ret = Err("extract", NoRoute)
           /\ cache' = cache ]_vars

\* C12 witness: extraction failed while a readable, fresh cache file was there
\* (the call was made with use_cache = False); the error is returned and the
\* file is as before
C12_Witness ==
    /\ Returned("parse_pdf")
    /\ last.dl = "ok" /\ ~last.extracted
    /\ last.ret.error = "extract"
    /\ last.pre.exists /\ last.pre.ok /\ is_cache_valid(last.pre)
    /\ cache[get_cache_path(last.route_number)] = last.pre

\* the runs of _parse_schedule_text made so far
Calls == {parses.calls[k] : k \in 1..Len(parses.calls)}
RoutesOf(call) == {call.schedules[r] : r \in 1..Len(call.schedules)}

\* the key the times of raw line i belong under: the direction announced last,
\* at line i or above it, and "All" when none was
KeyInForce(raw_text, i) ==
    LET announced == {j \in 1..i : direction_of(raw_text[j]) # NoDirection}
        latest == CHOOSE j \in announced : \A k \in announced : k <= j
    IN  IF announced = {} THEN AllKey ELSE direction_of(raw_text[latest])

ContainsRun(s, run) ==
    \E o \in 0..(Len(s) - Len(run)) : SubSeq(s, o + 1, o + Len(run)) = run

PaddedTimes(line) == [k \in 1..Len(line.toks) |-> time_str(line.toks[k])]

\* C13: for every raw line of a route with at least 3 time tokens, all of the
\* line's times, as zero-padded HH:MM, are in schedule_times under the
\* direction in force, or under "All" when no direction was announced yet; so
\* the times of every row of a route without a direction line are under "All"
C13_RowsStored ==
    \A call \in Calls : \A route \in RoutesOf(call) :
        \A i \in 1..Len(route.raw_text) :
            Len(route.raw_text[i].toks) >= 3
            => \E e \in 1..Len(route.schedule_times) :
                  /\ route.schedule_times[e].key = KeyInForce(route.raw_text, i)
                  /\ ContainsRun(route.schedule_times[e].times,
                                 PaddedTimes(route.raw_text[i]))

T0800 == << <<"0", "8", ":", "0", "0">>, <<"0", "8", ":", "1", "5">>,
            <<"0", "8", ":", "3", "0">> >>
AmherstCenter == <<"A", "m", "h", "e", "r", "s", "t", " ", "C", "e", "n", "t", "e", "r">>

\* the times schedule_times holds under a key; none when the key is missing
\* or holds no times
TimesUnder(route, key) ==
    LET es == {e \in 1..Len(route.schedule_times) :
                  route.schedule_times[e].key = key /\ route.schedule_times[e].has_times}
    IN  IF es = {} THEN <<>> ELSE route.schedule_times[CHOOSE e \in es : TRUE].times

SingleRoute30(call) == Len(call.schedules) = 1 /\ call.schedules[1].route_number = R30

\* C14: the lines "Route 30", "LEAVE", "Campus Center 8:00 AM 8:15 AM 8:30 AM",
\* "To Amherst Center" parse to the single route "30" with the times 08:00,
\* 08:15, 08:30 under "All"; with the direction line above the row the times
\* are under "Amherst Center"
C14_RowAndDirection ==
    \A call \in Calls :
        /\ call.text = RowThenDirection
           => /\ SingleRoute30(call)
              /\ TimesUnder(call.schedules[1], AllKey) = T0800
              /\ TimesUnder(call.schedules[1], AmherstCenter) = <<>>
        /\ call.text = DirectionThenRow
           => /\ SingleRoute30(call)
              /\ TimesUnder(call.schedules[1], AmherstCenter) = T0800
              /\ TimesUnder(call.schedules[1], AllKey) = <<>>

C14_Witness ==
    /\ \E call \in Calls :
          call.text = RowThenDirection /\ TimesUnder(call.schedules[1], AllKey) = T0800
    /\ \E call \in Calls :
          /\ call.text = DirectionThenRow
          /\ TimesUnder(call.schedules[1], AmherstCenter) = T0800

\* C15: _parse_schedule_text is a function of its text alone: two runs on the
\* same text, on whichever parser instance and whatever ran in between, return
\* the same routes, which are those a first run on that text returns
C15_ParseIsPure ==
    /\ \A a \in Calls : \A b \in Calls : a.text = b.text => a.schedules = b.schedules
    /\ \A call \in Calls :
          call.schedules = parse_schedule_text(NoLocals, call.text).schedules

C15_Witness ==
    /\ Len(parses.calls) = 3
    /\ parses.calls[1].text = parses.calls[3].text
    /\ parses.calls[2].text # parses.calls[3].text
    /\ parses.calls[1].parser # parses.calls[3].parser
    /\ parses.calls[2].parser = parses.calls[3].parser
    /\ Len(parses.calls[2].schedules) > 0
    /\ Len(parses.calls[3].schedules) > 0
    /\ parses.calls[3].schedules = parses.calls[1].schedules

\* the stops the header of a route names, cleaned, before duplicates go
CleanedCandidates(route) ==
    LET stops_found == find_stops(route.raw_text)
    IN  [i \in 1..Len(stops_found) |-> clean_stop(stops_found[i])]

\* where a stop is named first among the cleaned names, letter case ignored
FirstNamedAt(cleaned, stop) ==
    LET at == {k \in 1..Len(cleaned) : Upper(cleaned[k]) = Upper(stop)}
    IN  IF at = {} THEN 0 ELSE CHOOSE k \in at : \A l \in at : k <= l

\* C16: the stops of every parsed route are at most 30, are in the order the
\* header names them first, and no two of them are equal when letter case is
\* ignored
C16_Stops ==
    \A call \in Calls : \A route \in RoutesOf(call) :
        LET cleaned == CleanedCandidates(route)
            upper == [i \in 1..Len(route.stops) |-> Upper(route.stops[i])]
            first == [i \in 1..Len(route.stops) |-> FirstNamedAt(cleaned, route.stops[i])]
        IN  /\ Len(route.stops) <= 30
            /\ \A i \in 1..Len(route.stops) : \A j \in 1..Len(route.stops) :
                  i < j => /\ upper[i] # upper[j]
                           /\ first[i] >= 1
                           /\ first[i] < first[j]

C16_Witness ==
    \E call \in Calls : \E route \in RoutesOf(call) :
        LET stops_found == find_stops(route.raw_text)
        IN  /\ Len(stops_found) > 30
            /\ \E i \in 1..Len(stops_found) : \E j \in 1..Len(stops_found) :
                  /\ stops_found[i] # stops_found[j]
                  /\ Upper(stops_found[i]) = Upper(stops_found[j])
            /\ Len(route.stops) = 30
            /\ route.stops[1] = join(<<WMain, WHall>>)

\* the messages saved for a session, oldest first, as the conversations table
\* holds them
SavedOf(db, session_id) ==
    LET rows == SelectSeq(db, LAMBDA row : row.session_id = session_id)
    IN  [k \in 1..Len(rows) |-> Message(rows[k].message_type, rows[k].content)]

Newest(messages, n) ==
    IF n >= Len(messages) THEN messages
    ELSE SubSeq(messages, Len(messages) - n + 1, Len(messages))

\* C17: get_conversation_history(s, n) returns the n messages saved last for
\* session s, all of them when they are fewer than n, oldest first, whether
\* the cache or the database serves them
C17_HistoryIsNewestSaved ==
    last.op = "get"
    => last.ret = Newest(SavedOf(last.pre.db, last.session_id), last.max_messages)

\* C18: the cache never holds more than 10 sessions
C18_CacheSize == Len(memory.cache) <= 10

OtherRows(db, session_id) == SelectSeq(db, LAMBDA row : row.session_id # session_id)

\* C19: clear_session(s) leaves no row and no cache entry of session s, it
\* leaves the rows and the cache entries of every other session as they were,
\* and a get_conversation_history(s) that comes next returns the empty list
C19_ClearSession ==
    /\ [] ( (last.op = "clear" /\ last.session_id # NoSession)
            => /\ SavedOf(memory.db, last.session_id) = <<>>
               /\ ~in_cache(memory.cache, last.session_id)
               /\ memory.db = OtherRows(last.pre.db, last.session_id)
               /\ \A e \in 1..Len(last.pre.cache) :
                     last.pre.cache[e].session_id # last.session_id
                     => /\ in_cache(memory.cache, last.pre.cache[e].session_id)
                        /\ cached(memory.cache, last.pre.cache[e].session_id)
                              = last.pre.cache[e].messages
               /\ Len(memory.cache) <= Len(last.pre.cache) )
    /\ [][ ( /\ last.op = "clear" /\ last.session_id # NoSession
             /\ now' # now /\ last'.op = "get"
             /\ last'.session_id = last.session_id )
           => last'.ret = <<>> ]_vars

C19_Witness ==
    /\ last.op = "clear"
    /\ last.session_id = 1
    /\ Len(SavedOf(last.pre.db, 1)) >= 1
    /\ in_cache(last.pre.cache, 1)
    /\ Len(cached(last.pre.cache, 1)) >= 1
    /\ Len(SavedOf(memory.db, 2)) >= 1
    /\ in_cache(memory.cache, 2)
    /\ SavedOf(memory.db, 1) = <<>>
    /\ ~in_cache(memory.cache, 1)

ChatRequest == last.request
ChatServed == chat.served[Len(chat.served)]

\* C20: a request whose message SafetyChecker.check flags is answered with the
\* safety response and exactly one log row with is_flagged = 1, without the
\* agent being called and without the conversation memory being touched; a
\* message that is empty once stripped is answered with status 400 before the
\* safety check, the agent and the log
C20_SafetyGate ==
    [][ (last'.op = "chat" /\ now' # now)
        => LET user_message == strip(last'.request.message)
               served == chat'.served[Len(chat'.served)]
           IN  /\ Len(chat'.served) = Len(chat.served) + 1
               /\ Len(user_message) = 0
                  => /\ served.status = 400
                     /\ chat'.safety_checks = chat.safety_checks
                     /\ chat'.agent_calls = chat.agent_calls
                     /\ chat'.logs = chat.logs
                     /\ memory' = memory
               /\ (Len(user_message) > 0 /\ check(user_message).is_unsafe)
                  => /\ served.status = 200
                     /\ served.reply = check(user_message).response
                     /\ chat'.agent_calls = chat.agent_calls
                     /\ memory' = memory
                     /\ Len(chat'.logs) = Len(chat.logs) + 1
                     /\ SubSeq(chat'.logs, 1, Len(chat.logs)) = chat.logs
                     /\ chat'.logs[Len(chat'.logs)].is_flagged = 1
                     /\ chat'.logs[Len(chat'.logs)].user_query = user_message ]_vars

\* a flagged request served after a request that went to the agent and left
\* messages in the memory, and a blank one served before them
C20_Witness ==
    /\ last.op = "chat"
    /\ ChatRequest.message = CheatMessage
    /\ ChatRequest.session_id = 1
    /\ ChatRequest.outcome = "reply"
    /\ ChatServed = Served(200, safe_response("academic_dishonesty"))
    /\ chat.agent_calls = 1
    /\ chat.safety_checks = 2
    /\ Len(chat.logs) = 2
    /\ chat.logs[2].is_flagged = 1
    /\ chat.logs[1].is_flagged = 0
    /\ Len(chat.served) = 3
    /\ chat.served[1].status = 400
    /\ Len(memory.db) > 0
    /\ in_cache(memory.cache, 1)

\* the route a line of the text belongs to: the route of the nearest heading
\* at or above it, NoRoute when there is none (or the line is blank)
OwnerOf(text, i) ==
    LET heads == { j \in 1..i : text[j] # BlankLine /\ route_heading(text[j]) # NoRoute }
    IN  IF text[i] = BlankLine \/ heads = {} THEN NoRoute
        ELSE route_heading(text[CHOOSE j \in heads : \A k \in heads : k <= j])

\* the lines of the text that belong to a route, in the order of the text
LinesOwnedBy(text, route_num) ==
    LET owned == { i \in 1..Len(text) : OwnerOf(text, i) = route_num }
    IN  [k \in 1..Cardinality(owned) |->
            text[CHOOSE i \in owned : Cardinality({ j \in owned : j <= i }) = k]]

\* C21: in the result of every run of _parse_schedule_text, there is one entry
\* per route that has a heading in the text and no other entry, no route has
\* two entries, and the raw_text of each entry is exactly the non-empty lines
\* whose nearest heading above (or at) them is a heading of that route, in the
\* order of the text; so a line above the first heading is in no raw_text and
\* a second heading of a route goes on with the entry the first one made.
C21_Segmentation ==
    \A call \in Calls :
        LET text == call.text
            schedules == call.schedules
            routes == { OwnerOf(text, i) : i \in 1..Len(text) } \ {NoRoute}
        IN  /\ { schedules[r].route_number : r \in 1..Len(schedules) } = routes
            /\ \A r, q \in 1..Len(schedules) :
                 schedules[r].route_number = schedules[q].route_number => r = q
            /\ \A r \in 1..Len(schedules) :
                 schedules[r].raw_text = LinesOwnedBy(text, schedules[r].route_number)

\* C21 witness: a text with a row above the first heading, a heading of route
\* 30, one of route 31 and a second one of route 30 was parsed; route 30 has
\* one entry holding its two headings, route 31 one holding its heading
C21_Witness ==
    \E call \in Calls :
        /\ call.text = <<Row1, Heading30, Heading31, Heading30>>
        /\ Len(call.schedules) = 2
        /\ call.schedules[1].route_number = R30
        /\ call.schedules[1].raw_text = <<Heading30, Heading30>>
        /\ call.schedules[2].raw_text = <<Heading31>>

\* the lines of raw_text with at least n time tokens \d{1,2}:\d{2}, in order
LinesWithTimes(raw_text, n) == SelectSeq(raw_text, LAMBDA line : Len(line.toks) >= n)

\* C22: the schedule_lines of every parsed route are exactly the lines of its
\* raw_text with at least 3 time tokens, in order, and when there is no such
\* line, exactly the lines of raw_text with at least one time token.
C22_ScheduleLines ==
    \A call \in Calls : \A route \in RoutesOf(call) :
        route.schedule_lines =
            IF LinesWithTimes(route.raw_text, 3) # <<>>
            THEN LinesWithTimes(route.raw_text, 3)
            ELSE LinesWithTimes(route.raw_text, 1)

\* route 30 as the document has it: all of its raw_text and schedule_lines
WholeRoute(lines) == <<ParsedRoute(R30, lines)>>

\* C23: the departures get_next_bus_times works with are those of all the
\* schedule_lines of the matched route (all of raw_text when it has none) that
\* hold the stop, wherever in the list a line stands; so the times returned
\* are the first 10 coming departures of all these lines.
C23_AllLinesScanned ==
    Returned("query_engine") =>
        /\ last.times.all_times = all_times(WholeRoute(inp.lines), inp.stop, inp.current_time)
        /\ last.times.future_times
              = future_times(WholeRoute(inp.lines), inp.stop, inp.current_time)

\* C24: when parse_pdf has downloaded, parsed and written, the route's cache
\* file holds the ParseResult it returns and nothing of what the file held
\* before; and a parse_pdf(use_cache = True) for the route made while that file
\* is less than 24 hours old returns the schedules, parsed_at and source_url
\* of the file, without a download.
C24_RoundTrip ==
    (Returned("parse_pdf") /\ ~last.raised /\ last.url # NoUrl) =>
        /\ last.written
              => cache[get_cache_path(last.route_number)]
                    = [exists |-> TRUE, mtime |-> now, ok |-> TRUE, data |-> last.ret.data]
        /\ ( /\ last.use_cache
             /\ last.pre.exists /\ last.pre.ok
             /\ FileAge(last.pre) < max_age_hours )
              => /\ last.ret.error = "none"
                 /\ last.ret.data.doc = last.pre.data.doc
                 /\ last.ret.data.parsed_at = last.pre.data.parsed_at
                 /\ last.ret.data.source_url = last.pre.data.source_url

\* C25: in a get_next_bus_times call that obtained its ParseResult, the routes
\* are matched against that same ParseResult (same document, parsed_at and
\* source URL, from the same cache entry), and the call downloads at most
\* once, whatever pdf_urls holds.
C25_OneParseResult ==
    (Returned("get_next_bus_times") /\ ~last.raised /\ last.first.error = "none") =>
        /\ last.parsed = last.first
        /\ last.downloads <= 1
        /\ \A p \in Paths : p # get_cache_path(last.route_number) => ~cache[p].exists

\* C26: a parse_pdf call never reads a cache file that a call with another
\* route_number argument wrote (the absent route_number included): the
\* ParseResult a call is served from the cache was cached for its own
\* route_number.
C26_NoCollision ==
    ( /\ Returned("parse_pdf")
      /\ last.downloads = 0 /\ last.ret.error = "none" )
        => last.ret.data.route_number = last.route_number

\* C27: with concurrent parse_pdf calls for one route, no call returns a
\* ParseResult that is not a complete one, and once every call has returned
\* and one of them has written, the cache file holds one complete ParseResult.
C27_ConcurrentWrites ==
    /\ \A t \in Threads :
         (pc[t].at = "done" /\ pc[t].ret.hasData) => pc[t].ret.complete
    /\ ( /\ \A t \in Threads : pc[t].at = "done"
         /\ \E t \in Threads : pc[t].written > 0 )
          => /\ cache.exists
             /\ \E doc \in RaceDocs : cache.chunks = DocFile(doc)

\* C28: a request with a session_id that the agent answers leaves the stored
\* history of the session longer by the user's message, once, followed by the
\* messages the agent produced in the turn; nothing is saved twice and nothing
\* stored before is saved again.
C28_TurnSavedOnce ==
    [][ ( /\ last'.op = "chat" /\ now' # now
          /\ last'.request.session_id # NoSession
          /\ last'.request.outcome = "reply"
          /\ chat'.agent_calls = chat.agent_calls + 1 )
        => SavedOf(memory'.db, last'.request.session_id)
              = SavedOf(memory.db, last'.request.session_id)
                   \o << Message("human", strip(last'.request.message)),
                         Message("ai", AgentReply) >> ]_vars

\* the places of a history whose message is to be kept: every message that is
\* not a ToolMessage, and a ToolMessage when the nearest message before it
\* that is not a ToolMessage is an AIMessage with tool_calls
KeptPlaces(messages) ==
    { i \in 1..Len(messages) :
        \/ messages[i].type # "tool"
        \/ LET before == { j \in 1..(i - 1) : messages[j].type # "tool" }
           IN  /\ before # {}
               /\ LET j == CHOOSE j \in before : \A k \in before : k <= j
                  IN  messages[j].type = "ai" /\ messages[j].tool_calls > 0 }

\* C29: _clean_conversation_history returns the messages at the places to be
\* kept, in the order of the input; so in what it returns no ToolMessage comes
\* first or right after a HumanMessage, a SystemMessage or an AIMessage
\* without tool_calls.
C29_CleanHistory ==
    last.op = "clean" =>
        LET messages == inp.messages
            kept == KeptPlaces(messages)
            out == last.ret
        IN  /\ out = [k \in 1..Cardinality(kept) |->
                        messages[CHOOSE i \in kept :
                                    Cardinality({ j \in kept : j <= i }) = k]]
            /\ \A k \in 1..Len(out) :
                 out[k].type = "tool"
                 => /\ k > 1
                    /\ \/ out[k - 1].type = "tool"
                       \/ out[k - 1].type = "ai" /\ out[k - 1].tool_calls > 0

\* C29 witness: of a history of a ToolMessage, an AIMessage with tool_calls,
\* two ToolMessages and a HumanMessage the first message is dropped and the
\* rest is kept
C29_Witness ==
    /\ last.op = "clean"
    /\ Len(inp.messages) = 5
    /\ inp.messages[1].type = "tool"
    /\ inp.messages[2].type = "ai" /\ inp.messages[2].tool_calls > 0
    /\ inp.messages[3].type = "tool"
    /\ inp.messages[4].type = "tool"
    /\ inp.messages[5].type = "human"
    /\ last.ret = SubSeq(inp.messages, 2, 5)

\* C30: after cleanup_old_sessions, get_conversation_history returns no
\* message saved before the cutoff, for a session in the cache as for any
\* other. (The code deletes the rows and leaves the cache as it was: violated.)
C30_CleanupRemovesOld ==
    last.op = "get" /\ last.cutoff > 0
    => \A k \in 1..Len(last.ret) : last.ret[k].content >= last.cutoff

====
